---- MODULE Spec2Model ----
(***************************************************************************)
(* block-to-time-web: the multi-source estimation engine                   *)
(* (lib/block-estimator.ts, lib/networks.ts), the notification scheduler   *)
(* (app/api/subscribe/route.ts, app/api/cron/notify/route.ts) and the      *)
(* standalone cron worker.                                                 *)
(*                                                                         *)
(* Times are milliseconds since the epoch of the run (Date.getTime()).     *)
(* A nullable column or field is a sequence: <<>> is null, <<v>> is v.     *)
(* A JavaScript number that is not an integer (an average block time) is   *)
(* the exact fraction [num, den]. An error message is the sequence of its  *)
(* pieces of text where the code joins or searches messages.               *)
(***************************************************************************)
EXTENDS Integers, Sequences, FiniteSets, TLC

VARIABLES
    now,         \* the wall clock, Date.now()
    height,      \* the head of the chain the endpoints follow
    watches,     \* table BlockWatch: id -> row
    notifs,      \* table Notification: <<blockWatchId, tier>> -> row
    dispatched,  \* messages the Slack webhook accepted: <<blockWatchId, tier>> -> count
    nextId,      \* the next BlockWatch id (ids are never reused)
    cyc,         \* the running processNotifications() call of the cron route
    sample,      \* a call of median(arr): its argument and its return value
    trying,      \* a call of tryMultiple(urls, fn), with the attempts made so far
    fetching,    \* a call of gatherNetworkData(network): its three adapters
    request,     \* the last request to a query endpoint, with its response
    processEnv,  \* process.env of the server: CRON_SECRET
    http,        \* the last request to the subscribe, watch or cron endpoint, with its response
    cyc2,        \* a second processNotifications() call, of another trigger
    loop         \* the worker process: its loop, the `running` flag and the connection

schedVars == <<now, height, watches, notifs, dispatched, nextId, cyc>>
estimatorVars == <<sample, trying, fetching, request>>
httpVars == <<processEnv, http>>
procVars == <<cyc2, loop>>
vars ==
    <<now, height, watches, notifs, dispatched, nextId, cyc, sample, trying, fetching, request,
      processEnv, http, cyc2, loop>>

(***************************************************************************)
(* Bounds of the model.                                                    *)
(***************************************************************************)
MaxWatches == 1
MaxHeight == 2
MaxTicks == 3

\* The clock advances in steps of five minutes.
TickMs == 5 * 60 * 1000

None == <<>>
Some(x) == <<x>>

Min(a, b) == IF a <= b THEN a ELSE b
Max(a, b) == IF a >= b THEN a ELSE b

(***************************************************************************)
(* lib/networks.ts and the Prisma enums.                                   *)
(***************************************************************************)
NETWORKS ==
    [XRPL_EVM_MAINNET |->
        [rpcUrls |-> <<"https://rpc.xrplevm.org",
                       "https://json-rpc.xrpl.cumulo.org.es",
                       "https://xrpevm-rpc.polkachu.com">>,
         tendermintRpcUrls |-> <<"https://cosmos-rpc.xrplevm.org",
                                 "https://xrp-rpc.polkachu.com",
                                 "https://rpc.xrpl.cumulo.org.es",
                                 "https://xrpl-rpc.stakeme.pro">>,
         cosmosApiUrls |-> <<"https://cosmos-api.xrplevm.org",
                             "https://xrp-api.polkachu.com",
                             "https://api.xrpl.cumulo.org.es",
                             "https://xrpl-rest.stakeme.pro">>],
     XRPL_EVM_TESTNET |->
        [rpcUrls |-> <<"https://rpc.testnet.xrplevm.org",
                       "https://json-rpc.xrpl.cumulo.com.es",
                       "https://xrplevm-testnet-evm.itrocket.net">>,
         tendermintRpcUrls |-> <<"https://cosmos-rpc.testnet.xrplevm.org",
                                 "https://xrp-testnet-rpc.polkachu.com",
                                 "https://rpc.xrpl.cumulo.com.es",
                                 "https://xrplevm-testnet-rpc.itrocket.net">>,
         cosmosApiUrls |-> <<"http://cosmos-api.testnet.xrplevm.org",
                             "https://xrp-testnet-api.polkachu.com",
                             "https://api.xrpl.cumulo.com.es",
                             "https://xrplevm-testnet-api.itrocket.net">>]]

Networks == DOMAIN NETWORKS

Tiers == <<"ONE_DAY", "SIX_HOURS", "ONE_HOUR", "FIFTEEN_MINUTES", "FIVE_MINUTES">>

TierSet == {Tiers[i] : i \in 1..Len(Tiers)}

TIER_OFFSETS ==
    [t \in TierSet |->
        CASE t = "ONE_DAY" -> 24 * 60 * 60 * 1000
          [] t = "SIX_HOURS" -> 6 * 60 * 60 * 1000
          [] t = "ONE_HOUR" -> 60 * 60 * 1000
          [] t = "FIFTEEN_MINUTES" -> 15 * 60 * 1000
          [] t = "FIVE_MINUTES" -> 5 * 60 * 1000]

(***************************************************************************)
(* Fractions: the non-integer numbers of the estimator.                    *)
(***************************************************************************)
Rat(n, d) == [num |-> n, den |-> d]

RatAdd(a, b) == Rat(a.num * b.den + b.num * a.den, a.den * b.den)

RatDivInt(a, n) == Rat(a.num, a.den * n)

RatMulInt(a, n) == Rat(a.num * n, a.den)

RatSub(a, b) == Rat(a.num * b.den - b.num * a.den, a.den * b.den)

RatMul(a, b) == Rat(a.num * b.num, a.den * b.den)

\* -1, 0 or 1 as the fraction is negative, zero or positive.
RatSign(a) ==
    LET p == a.num * a.den
    IN  IF p > 0 THEN 1 ELSE IF p < 0 THEN -1 ELSE 0

\* a <= b, a < b and a = b on the values of the fractions.
RatLeq(a, b) == RatSign(RatSub(a, b)) <= 0

RatLess(a, b) == RatSign(RatSub(a, b)) < 0

RatEq(a, b) == RatSign(RatSub(a, b)) = 0

\* Math.floor
RatFloor(a) ==
    LET n == IF a.den < 0 THEN -a.num ELSE a.num
        d == IF a.den < 0 THEN -a.den ELSE a.den
    IN  n \div d

\* The fraction is a whole number.
RatIsWhole(a) == a.num % (IF a.den < 0 THEN -a.den ELSE a.den) = 0

\* ToIntegerOrInfinity of a finite fraction: truncation toward zero.
RatTrunc(a) ==
    LET n == IF a.den < 0 THEN -a.num ELSE a.num
        d == IF a.den < 0 THEN -a.den ELSE a.den
    IN  IF n >= 0 THEN n \div d ELSE -((-n) \div d)

\* The quotient 0 / 0, JavaScript's NaN as a fraction: a sum, a difference or
\* a product with it has the denominator 0 as well.
ZeroOverZero == Rat(0, 0)

NotFinite(a) == a.den = 0

\* The Date whose time value is NaN.
InvalidDate == [valid |-> FALSE]

\* new Date(t): the time value of the Date, t truncated to a whole number of
\* milliseconds, or the Invalid Date for NaN.
NewDate(t) == IF NotFinite(t) THEN InvalidDate ELSE RatTrunc(t)

(***************************************************************************)
(* lib/block-estimator.ts: median, average, gatherNetworkData's reduction, *)
(* estimateBlockTime.                                                      *)
(***************************************************************************)
RECURSIVE Insert(_, _)
Insert(x, s) ==
    IF s = <<>> THEN <<x>>
    ELSE IF x <= Head(s) THEN <<x>> \o s
    ELSE <<Head(s)>> \o Insert(x, Tail(s))

RECURSIVE SortAsc(_)
SortAsc(s) == IF s = <<>> THEN <<>> ELSE Insert(Head(s), SortAsc(Tail(s)))

\* median without the sort.
MutMedianUnsorted(arr) ==
    LET mid == Len(arr) \div 2
    IN  IF Len(arr) % 2 # 0
        THEN arr[mid + 1]
        ELSE (arr[mid] + arr[mid + 1]) \div 2

\* sorted[] is 0-indexed in the source: sorted[mid] is sorted[mid + 1] here.
median(arr) ==
    LET sorted == SortAsc(arr)
        mid == Len(sorted) \div 2
    IN  IF Len(sorted) % 2 # 0
        THEN sorted[mid + 1]
        ELSE (sorted[mid] + sorted[mid + 1]) \div 2

RECURSIVE RatSum(_)
RatSum(s) == IF s = <<>> THEN Rat(0, 1) ELSE RatAdd(Head(s), RatSum(Tail(s)))

average(arr) == RatDivInt(RatSum(arr), Len(arr))

\* A settled adapter promise of Promise.allSettled.
Rejected == [status |-> "rejected"]

Fulfilled(h, avg, u) ==
    [status |-> "fulfilled", height |-> h, avgBlockTimeMs |-> avg, url |-> u]

AllFailedMsg == "All data sources failed. Please try again later."

AlreadyReachedMsg == "Target block has already been reached."

\* The grading with "medium" from one source on.
MutConfidence(n) == IF n >= 3 THEN "high" ELSE IF n >= 1 THEN "medium" ELSE "low"

\* `let confidence` of gatherNetworkData, for heights.length = n.
Confidence(n) == IF n >= 3 THEN "high" ELSE IF n >= 2 THEN "medium" ELSE "low"

\* gatherNetworkData with one adapter's failure aborting the whole call
\* (Promise.all for Promise.allSettled).
MutGatherNetworkData(ethResult, tendermintResult, cosmosResult) ==
    LET settled == <<ethResult, tendermintResult, cosmosResult>>
        heights == [i \in 1..3 |-> settled[i].height]
        blockTimes == [i \in 1..3 |-> settled[i].avgBlockTimeMs]
    IN  IF \E i \in 1..3 : settled[i].status # "fulfilled"
        THEN [ok |-> FALSE, message |-> AllFailedMsg]
        ELSE [ok |-> TRUE,
              currentBlock |-> median(heights),
              avgBlockTimeMs |-> average(blockTimes),
              sources |->
                  [ethRpc |-> Some([blockHeight |-> ethResult.height,
                                    url |-> ethResult.url]),
                   tendermint |-> Some([blockHeight |-> tendermintResult.height,
                                        avgBlockTimeMs |-> tendermintResult.avgBlockTimeMs,
                                        url |-> tendermintResult.url]),
                   cosmosApi |-> Some([blockHeight |-> cosmosResult.height,
                                       url |-> cosmosResult.url])],
              confidence |-> Confidence(3)]

\* The part of gatherNetworkData after Promise.allSettled.
gatherNetworkData(ethResult, tendermintResult, cosmosResult) ==
    LET settled == <<ethResult, tendermintResult, cosmosResult>>
        ok == SelectSeq(settled, LAMBDA r : r.status = "fulfilled")
        heights == [i \in 1..Len(ok) |-> ok[i].height]
        blockTimes == [i \in 1..Len(ok) |-> ok[i].avgBlockTimeMs]
    IN  IF Len(heights) = 0
        THEN [ok |-> FALSE, message |-> AllFailedMsg]
        ELSE [ok |-> TRUE,
              currentBlock |-> median(heights),
              avgBlockTimeMs |-> average(blockTimes),
              sources |->
                  [ethRpc |->
                       IF ethResult.status = "fulfilled"
                       THEN Some([blockHeight |-> ethResult.height,
                                  url |-> ethResult.url])
                       ELSE None,
                   tendermint |->
                       IF tendermintResult.status = "fulfilled"
                       THEN Some([blockHeight |-> tendermintResult.height,
                                  avgBlockTimeMs |-> tendermintResult.avgBlockTimeMs,
                                  url |-> tendermintResult.url])
                       ELSE None,
                   cosmosApi |->
                       IF cosmosResult.status = "fulfilled"
                       THEN Some([blockHeight |-> cosmosResult.height,
                                  url |-> cosmosResult.url])
                       ELSE None],
              confidence |-> Confidence(Len(heights))]

\* estimateBlockTime whose date is built from the duration alone, without
\* Date.now().
MutEstimateBlockTimeFromEpoch(data, targetBlock, nowMs) ==
    IF ~data.ok
    THEN [ok |-> FALSE, message |-> data.message]
    ELSE LET blocksRemaining == RatSub(targetBlock, Rat(data.currentBlock, 1))
             estimatedTimeMs == RatMul(blocksRemaining, data.avgBlockTimeMs)
         IN  IF RatSign(blocksRemaining) <= 0
             THEN [ok |-> FALSE, message |-> AlreadyReachedMsg]
             ELSE [ok |-> TRUE,
                   currentBlock |-> data.currentBlock,
                   targetBlock |-> targetBlock,
                   blocksRemaining |-> blocksRemaining,
                   avgBlockTimeMs |-> data.avgBlockTimeMs,
                   estimatedTimeMs |-> estimatedTimeMs,
                   estimatedDate |-> NewDate(estimatedTimeMs),
                   sources |-> data.sources,
                   confidence |-> data.confidence]

\* estimateBlockTime that rejects with `blocksRemaining < 0`.
MutEstimateBlockTime(data, targetBlock, nowMs) ==
    IF ~data.ok
    THEN [ok |-> FALSE, message |-> data.message]
    ELSE LET blocksRemaining == RatSub(targetBlock, Rat(data.currentBlock, 1))
             estimatedTimeMs == RatMul(blocksRemaining, data.avgBlockTimeMs)
         IN  IF RatSign(blocksRemaining) < 0
             THEN [ok |-> FALSE, message |-> AlreadyReachedMsg]
             ELSE [ok |-> TRUE,
                   currentBlock |-> data.currentBlock,
                   targetBlock |-> targetBlock,
                   blocksRemaining |-> blocksRemaining,
                   avgBlockTimeMs |-> data.avgBlockTimeMs,
                   estimatedTimeMs |-> estimatedTimeMs,
                   estimatedDate |-> RatTrunc(RatAdd(Rat(nowMs, 1), estimatedTimeMs)),
                   sources |-> data.sources,
                   confidence |-> data.confidence]

\* estimateBlockTime on the aggregate `data`, with Date.now() = nowMs.
\* targetBlock is a JavaScript number: a fraction. The time value of a Date is
\* a whole number of milliseconds: new Date(t) truncates t. With an
\* avgBlockTimeMs of NaN the estimate is returned all the same, with NaN for
\* estimatedTimeMs and the Invalid Date for estimatedDate.
estimateBlockTime(data, targetBlock, nowMs) ==
    IF ~data.ok
    THEN [ok |-> FALSE, message |-> data.message]
    ELSE LET blocksRemaining == RatSub(targetBlock, Rat(data.currentBlock, 1))
             estimatedTimeMs == RatMul(blocksRemaining, data.avgBlockTimeMs)
         IN  IF RatSign(blocksRemaining) <= 0
             THEN [ok |-> FALSE, message |-> AlreadyReachedMsg]
             ELSE [ok |-> TRUE,
                   currentBlock |-> data.currentBlock,
                   targetBlock |-> targetBlock,
                   blocksRemaining |-> blocksRemaining,
                   avgBlockTimeMs |-> data.avgBlockTimeMs,
                   estimatedTimeMs |-> estimatedTimeMs,
                   estimatedDate |-> NewDate(RatAdd(Rat(nowMs, 1), estimatedTimeMs)),
                   sources |-> data.sources,
                   confidence |-> data.confidence]

TimeInPastMsg == "Target time must be in the future."

RatDiv(a, b) == Rat(a.num * b.den, a.den * b.num)

\* estimateBlockAtTime that rounds the quotient to the nearest whole number.
MutEstimateBlockAtTime(data, targetDate, nowMs) ==
    IF ~data.ok
    THEN [ok |-> FALSE, message |-> data.message]
    ELSE LET timeFromNowMs == targetDate.time - nowMs
             blocksAway ==
                RatFloor(RatAdd(RatDiv(Rat(timeFromNowMs, 1), data.avgBlockTimeMs), Rat(1, 2)))
         IN  IF timeFromNowMs <= 0
             THEN [ok |-> FALSE, message |-> TimeInPastMsg]
             ELSE [ok |-> TRUE,
                   currentBlock |-> data.currentBlock,
                   estimatedBlock |-> data.currentBlock + blocksAway,
                   blocksAway |-> blocksAway,
                   avgBlockTimeMs |-> data.avgBlockTimeMs,
                   targetDate |-> targetDate,
                   timeFromNowMs |-> timeFromNowMs,
                   sources |-> data.sources,
                   confidence |-> data.confidence]

\* estimateBlockAtTime on the aggregate `data`, with Date.now() = nowMs.
\* targetDate is a valid Date, [valid |-> TRUE, time |-> ms]. The function has
\* two parameters, network and targetDate: a third argument of a call is not
\* read.
estimateBlockAtTime(data, targetDate, nowMs) ==
    IF ~data.ok
    THEN [ok |-> FALSE, message |-> data.message]
    ELSE LET timeFromNowMs == targetDate.time - nowMs
             blocksAway == RatFloor(RatDiv(Rat(timeFromNowMs, 1), data.avgBlockTimeMs))
         IN  IF timeFromNowMs <= 0
             THEN [ok |-> FALSE, message |-> TimeInPastMsg]
             ELSE [ok |-> TRUE,
                   currentBlock |-> data.currentBlock,
                   estimatedBlock |-> data.currentBlock + blocksAway,
                   blocksAway |-> blocksAway,
                   avgBlockTimeMs |-> data.avgBlockTimeMs,
                   targetDate |-> targetDate,
                   timeFromNowMs |-> timeFromNowMs,
                   sources |-> data.sources,
                   confidence |-> data.confidence]

\* err.message.includes("already been reached")
IncludesAlreadyReached(message) == message = AlreadyReachedMsg

(***************************************************************************)
(* lib/block-estimator.ts: tryMultiple. A message is the sequence of its   *)
(* pieces of text, so that joining and embedding are computed.             *)
(***************************************************************************)
\* errors.map((e) => e.message).join(", ")
RECURSIVE JoinMessages(_)
JoinMessages(errors) ==
    IF errors = <<>> THEN <<>>
    ELSE IF Len(errors) = 1 THEN errors[1]
    ELSE errors[1] \o <<", ">> \o JoinMessages(Tail(errors))

\* new Error(`All endpoints failed: ${...}`)
AllEndpointsFailed(errors) == <<"All endpoints failed: ">> \o JoinMessages(errors)

\* fn(url) settles: it returned `value` or threw an Error with `message`.
Returned(value) == [ok |-> TRUE, value |-> value]

Threw(message) == [ok |-> FALSE, message |-> message]

\* tryMultiple(urls, fn) on entry: `const errors = []`, and the loop is at the
\* first url, or over at once when there is none.
StartTryMultiple(urls) ==
    IF Len(urls) = 0
    THEN [urls |-> urls, i |-> 1, errors |-> <<>>, status |-> "thrown",
          result |-> None, url |-> None, message |-> Some(AllEndpointsFailed(<<>>))]
    ELSE [urls |-> urls, i |-> 1, errors |-> <<>>, status |-> "pending",
          result |-> None, url |-> None, message |-> None]

\* The same loop with `errors.unshift(e)` for `errors.push(e)`.
MutTryMultipleUnshift(t, settled) ==
    IF settled.ok
    THEN [t EXCEPT !.status = "returned",
                   !.result = Some(settled.value),
                   !.url = Some(t.urls[t.i])]
    ELSE LET errors == <<settled.message>> \o t.errors
         IN  IF t.i < Len(t.urls)
             THEN [t EXCEPT !.errors = errors, !.i = t.i + 1]
             ELSE [t EXCEPT !.errors = errors,
                            !.status = "thrown",
                            !.message = Some(AllEndpointsFailed(errors))]

\* The same loop going on after a success when a url is left.
MutTryMultipleGoesOn(t, settled) ==
    LET errors == IF settled.ok THEN t.errors ELSE Append(t.errors, settled.message)
    IN  IF t.i < Len(t.urls)
        THEN [t EXCEPT !.errors = errors, !.i = t.i + 1]
        ELSE IF settled.ok
        THEN [t EXCEPT !.status = "returned",
                       !.result = Some(settled.value),
                       !.url = Some(t.urls[t.i])]
        ELSE [t EXCEPT !.errors = errors,
                       !.status = "thrown",
                       !.message = Some(AllEndpointsFailed(errors))]

\* The same loop returning the first url of the list with the result.
MutTryMultipleFirstUrl(t, settled) ==
    IF settled.ok
    THEN [t EXCEPT !.status = "returned",
                   !.result = Some(settled.value),
                   !.url = Some(t.urls[1])]
    ELSE LET errors == Append(t.errors, settled.message)
         IN  IF t.i < Len(t.urls)
             THEN [t EXCEPT !.errors = errors, !.i = t.i + 1]
             ELSE [t EXCEPT !.errors = errors,
                            !.status = "thrown",
                            !.message = Some(AllEndpointsFailed(errors))]

\* One turn of tryMultiple's loop: `await fn(url)` for url = urls[i] has settled.
\* i is 1-based here.
tryMultiple(t, settled) ==
    IF settled.ok
    THEN \* return { result, url }
         [t EXCEPT !.status = "returned",
                   !.result = Some(settled.value),
                   !.url = Some(t.urls[t.i])]
    ELSE LET errors == Append(t.errors, settled.message)
         IN  IF t.i < Len(t.urls)
             THEN [t EXCEPT !.errors = errors, !.i = t.i + 1]
             ELSE [t EXCEPT !.errors = errors,
                            !.status = "thrown",
                            !.message = Some(AllEndpointsFailed(errors))]

(***************************************************************************)
(* The environment of a run: what the three source adapters can settle to  *)
(* and whether a webhook delivery can fail.                                *)
(***************************************************************************)
Users == {"alice"}

WebhookUrl == "https://hooks.slack.com/services/T/B/x"

EmailAddress == "alice@example.org"

\* No request has been received.
NoRequest == [route |-> None]

\* The value the deployment gives CRON_SECRET.
CronSecret == "s3cret"

\* The endpoints of the scheduler's runs measure a block each ten minutes.
AvgBlockTimes == {Rat(10 * 60 * 1000, 1)}

\* The delivery channels of a subscription request: <<slackWebhookUrl, email>>.
Channels == {None, Some(WebhookUrl)} \X {None, Some(EmailAddress)}

\* An endpoint answers with the head of the chain or lags one block behind;
\* an adapter can fail and a delivery can fail.
EnvAny ==
    [avgs |-> AvgBlockTimes, lags |-> {0, 1}, reject |-> TRUE, deliveryFails |-> TRUE,
     networks |-> {"XRPL_EVM_MAINNET"},
     channels |-> Channels \ {<<Some(WebhookUrl), Some(EmailAddress)>>}]

\* Estimation and delivery succeed.
EnvOk ==
    [avgs |-> AvgBlockTimes, lags |-> {0}, reject |-> FALSE, deliveryFails |-> FALSE,
     networks |-> {"XRPL_EVM_MAINNET"},
     channels |-> Channels \ {<<Some(WebhookUrl), Some(EmailAddress)>>}]

\* The subscription requests of SpecSubscribe: block times from five minutes to
\* a day, so that every tier is created by some request and missed by another.
EnvWide ==
    [avgs |-> {Rat(5 * 60 * 1000, 1), Rat(6 * 60 * 60 * 1000, 1), Rat(24 * 60 * 60 * 1000, 1)},
     lags |-> {0}, reject |-> TRUE, deliveryFails |-> TRUE,
     networks |-> {"XRPL_EVM_TESTNET"},
     channels |-> Channels]

\* What one adapter can settle to while the chain head is h.
SrcDraw(env, h) ==
    (IF env.reject THEN {Rejected} ELSE {})
    \cup {Fulfilled(h - l, a, "url") : l \in {x \in env.lags : x <= h}, a \in env.avgs}

\* What gatherNetworkData can return or throw while the chain head is h: one
\* outcome per way the three adapters settle.
Aggregates(env, h) ==
    {gatherNetworkData(e, t, c) :
        e \in SrcDraw(env, h), t \in SrcDraw(env, h), c \in SrcDraw(env, h)}

\* What estimateBlockTime(network, targetBlock) can return or throw at nowMs
\* while the chain head is h.
Estimates(env, h, targetBlock, nowMs) ==
    {estimateBlockTime(data, targetBlock, nowMs) : data \in Aggregates(env, h)}

\* The outcomes of sendSlackNotification: TRUE is a 2xx answer.
Deliveries(env) == IF env.deliveryFails THEN {TRUE, FALSE} ELSE {TRUE}

(***************************************************************************)
(* The persisted records.                                                  *)
(***************************************************************************)
\* The messages that can go to the webhooks of the watches `ids`.
MessageKeys(ids) == ids \X (TierSet \cup {"REACHED"})

\* The Notification rows of watch w.
NotifsOf(w) == {k \in DOMAIN notifs : k[1] = w}

\* The mass-mark restricted to the rows that are due.
MutMarkAllSent(rows, w, at) ==
    [k \in DOMAIN rows |->
        IF k[1] = w /\ ~rows[k].sent /\ rows[k].scheduledFor <= at
        THEN [rows[k] EXCEPT !.sent = TRUE, !.sentAt = Some(at)]
        ELSE rows[k]]

\* prisma.notification.updateMany({where: {blockWatchId: w, sent: false}, data: {sent: true, sentAt}})
MarkAllSent(rows, w, at) ==
    [k \in DOMAIN rows |->
        IF k[1] = w /\ ~rows[k].sent
        THEN [rows[k] EXCEPT !.sent = TRUE, !.sentAt = Some(at)]
        ELSE rows[k]]

\* The rescheduling loop without the test on the new time.
MutReschedule(rows, w, estimatedDate, nowMs) ==
    [k \in DOMAIN rows |->
        IF k[1] = w /\ ~rows[k].sent
        THEN [rows[k] EXCEPT !.scheduledFor = estimatedDate - TIER_OFFSETS[k[2]]]
        ELSE rows[k]]

\* The rescheduling loop over Object.keys(TIER_OFFSETS): a tier whose new
\* time is in the future moves, if its row is unsent.
Reschedule(rows, w, estimatedDate, nowMs) ==
    [k \in DOMAIN rows |->
        IF k[1] = w /\ ~rows[k].sent /\ estimatedDate - TIER_OFFSETS[k[2]] > nowMs
        THEN [rows[k] EXCEPT !.scheduledFor = estimatedDate - TIER_OFFSETS[k[2]]]
        ELSE rows[k]]

\* prisma.notification.update({where: {id}, data: {sent: true, sentAt}})
MarkSent(rows, k, at) ==
    [rows EXCEPT ![k] = [@ EXCEPT !.sent = TRUE, !.sentAt = Some(at)]]

\* A slip in the filter: a tier due at this very millisecond is kept.
MutInitialNotifications(estimatedDate, nowMs) ==
    {t \in TierSet : estimatedDate - TIER_OFFSETS[t] >= nowMs}

\* The nested create of the subscribe route: the tiers still in the future.
InitialNotifications(estimatedDate, nowMs) ==
    {t \in TierSet : estimatedDate - TIER_OFFSETS[t] > nowMs}

Result(id, tier, status) == [id |-> id, tier |-> tier, status |-> status]

\* What one iteration of a loop of processNotifications went through: its
\* item, how the estimation ended ("ahead" with the estimate's currentBlock
\* and estimatedDate, "reached", or "error"), and whether the webhook accepted
\* the message if one was sent.
Iteration(item, estimate, attempted, delivered) ==
    [item |-> item,
     outcome |-> IF estimate.ok THEN "ahead"
                 ELSE IF IncludesAlreadyReached(estimate.message) THEN "reached"
                 ELSE "error",
     currentBlock |-> IF estimate.ok THEN Some(estimate.currentBlock) ELSE None,
     estimatedDate |-> IF estimate.ok THEN Some(estimate.estimatedDate) ELSE None,
     delivered |-> IF attempted THEN Some(delivered) ELSE None]

IdleCycle ==
    [pc |-> "idle", pending |-> {}, unreached |-> {}, bw |-> <<>>, results |-> <<>>,
     last |-> None]

(***************************************************************************)
(* The world outside the program.                                          *)
(***************************************************************************)
Tick ==
    /\ now < MaxTicks * TickMs
    /\ now' = now + TickMs
    /\ UNCHANGED <<height, watches, notifs, dispatched, nextId, cyc, estimatorVars, httpVars, procVars>>

AdvanceHeight ==
    /\ height < MaxHeight
    /\ height' = height + 1
    /\ UNCHANGED <<now, watches, notifs, dispatched, nextId, cyc, estimatorVars, httpVars, procVars>>

(***************************************************************************)
(* app/api/subscribe/route.ts: POST.                                       *)
(***************************************************************************)
\* auth(): the session of the request, if it has one.
Sessions == {None} \cup {Some(u) : u \in Users}

\* The JSON bodies of the requests: targetBlock is a number or missing,
\* network a text or missing.
Bodies(env) ==
    {body \in [targetBlock : {None} \cup {Some(Rat(n, 1)) : n \in 0..MaxHeight},
               network : {None} \cup {Some(n) : n \in env.networks},
               slackWebhookUrl : {None, Some(WebhookUrl)},
               email : {None, Some(EmailAddress)}] :
        <<body.slackWebhookUrl, body.email>> \in env.channels}

\* The row of prisma.blockWatch.create.
NewBlockWatch(userId, body, estimate) ==
    [userId |-> userId,
     email |-> body.email,
     slackWebhookUrl |-> body.slackWebhookUrl,
     network |-> body.network[1],
     targetBlock |-> RatFloor(body.targetBlock[1]),
     currentBlock |-> estimate.currentBlock,
     estimatedTime |-> estimate.estimatedDate,
     reachedNotifiedAt |-> None]

\* The rows of the nested create, by tier.
NewNotifications(estimate, nowMs) ==
    [t \in InitialNotifications(estimate.estimatedDate, nowMs) |->
        [scheduledFor |-> estimate.estimatedDate - TIER_OFFSETS[t],
         sent |-> FALSE,
         sentAt |-> None]]

\* What gatherNetworkData answers for the network of a request: NETWORKS has
\* no entry for another text, and every adapter rejects on reading its urls.
DataOf(network, data) ==
    IF network \in Networks THEN data ELSE [ok |-> FALSE, message |-> AllFailedMsg]

\* The handler without the check of the delivery channels.
MutSubscribePOST(session, body, data, nowMs) ==
    LET rejected(status) == [status |-> status, estimation |-> None, created |-> None]
        estimate == estimateBlockTime(DataOf(body.network[1], data), body.targetBlock[1], nowMs)
    IN  IF session = None
        THEN rejected(401)
        ELSE IF \/ body.targetBlock = None
                \/ RatSign(body.targetBlock[1]) = 0
                \/ body.network = None
        THEN rejected(400)
        ELSE IF ~estimate.ok
        THEN [status |-> 500,
              estimation |-> Some(IF IncludesAlreadyReached(estimate.message)
                                  THEN "reached" ELSE "error"),
              created |-> None]
        ELSE IF ~RatIsWhole(body.targetBlock[1]) \/ NotFinite(estimate.estimatedTimeMs)
        THEN [status |-> 500, estimation |-> Some("ahead"), created |-> None]
        ELSE [status |-> 200,
              estimation |-> Some("ahead"),
              created |-> Some([blockWatch |-> NewBlockWatch(session[1], body, estimate),
                                notifications |-> NewNotifications(estimate, nowMs)])]

\* POST /api/subscribe at nowMs, where gatherNetworkData returns or throws
\* `data`: the status of the response, how the estimation ended if the
\* handler got to it, and the rows created. BigInt(targetBlock) throws for a
\* number that is not whole, and blockWatch.create throws for an estimatedTime
\* that is the Invalid Date.
SubscribePOST(session, body, data, nowMs) ==
    LET rejected(status) == [status |-> status, estimation |-> None, created |-> None]
        estimate == estimateBlockTime(DataOf(body.network[1], data), body.targetBlock[1], nowMs)
    IN  IF session = None
        THEN rejected(401)
        ELSE IF \/ body.targetBlock = None
                \/ RatSign(body.targetBlock[1]) = 0
                \/ body.network = None
        THEN rejected(400)
        ELSE IF body.slackWebhookUrl = None /\ body.email = None
        THEN rejected(400)
        ELSE IF ~estimate.ok
        THEN [status |-> 500,
              estimation |-> Some(IF IncludesAlreadyReached(estimate.message)
                                  THEN "reached" ELSE "error"),
              created |-> None]
        ELSE IF ~RatIsWhole(body.targetBlock[1]) \/ NotFinite(estimate.estimatedTimeMs)
        THEN [status |-> 500, estimation |-> Some("ahead"), created |-> None]
        ELSE [status |-> 200,
              estimation |-> Some("ahead"),
              created |-> Some([blockWatch |-> NewBlockWatch(session[1], body, estimate),
                                notifications |-> NewNotifications(estimate, nowMs)])]

\* The tables after the create of `created` under the id `id`.
WatchesWith(id, created) ==
    [w \in DOMAIN watches \cup {id} |-> IF w = id THEN created.blockWatch ELSE watches[w]]

NotifsWith(id, created) ==
    [k \in DOMAIN notifs \cup ({id} \X DOMAIN created.notifications) |->
        IF k[1] = id THEN created.notifications[k[2]] ELSE notifs[k]]

\* A request that is accepted.
Subscribe(env, maxWatches) ==
    /\ nextId <= maxWatches
    /\ \E session \in Sessions, body \in Bodies(env) :
       \E data \in Aggregates(env, height) :
        LET answer == SubscribePOST(session, body, data, now)
        IN  /\ answer.status = 200
            /\ watches' = WatchesWith(nextId, answer.created[1])
            /\ notifs' = NotifsWith(nextId, answer.created[1])
    /\ nextId' = nextId + 1
    /\ UNCHANGED <<now, height, dispatched, cyc, estimatorVars, httpVars, procVars>>

\* The bodies of Bodies(env) and two more: a target that is not whole, and a
\* network the program does not know.
AnyBodies(env) ==
    Bodies(env)
    \cup {[body EXCEPT !.targetBlock = Some(Rat(5, 2))] : body \in Bodies(env)}
    \cup {[body EXCEPT !.network = Some("DOGE")] : body \in Bodies(env)}

\* Any request, accepted or rejected, with its response. A rejected request
\* leaves the tables as they were, so a behaviour of the model ends with it:
\* what may follow it may follow the state before it.
SubscribeRequest(env, maxWatches) ==
    /\ nextId <= maxWatches
    /\ IF http = NoRequest THEN TRUE ELSE http.response = Some([status |-> 200])
    /\ \E session \in Sessions, body \in AnyBodies(env) :
       \E data \in Aggregates(env, height) :
        LET answer == SubscribePOST(session, body, data, now)
        IN  /\ http' = [route |-> Some("subscribe"), session |-> session, body |-> body,
                        estimation |-> answer.estimation,
                        response |-> Some([status |-> answer.status])]
            /\ IF answer.status = 200
               THEN /\ watches' = WatchesWith(nextId, answer.created[1])
                    /\ notifs' = NotifsWith(nextId, answer.created[1])
                    /\ nextId' = nextId + 1
               ELSE UNCHANGED <<watches, notifs, nextId>>
    /\ UNCHANGED <<now, height, dispatched, cyc, estimatorVars, processEnv, procVars>>

(***************************************************************************)
(* app/api/cron/notify/route.ts: processNotifications.                     *)
(***************************************************************************)
\* Pass 1's query with `lt` for `lte`: a row due at this very millisecond is
\* left out.
MutPass1Select(take) ==
    /\ cyc.pc = "idle"
    /\ LET due == {k \in DOMAIN notifs : ~notifs[k].sent /\ notifs[k].scheduledFor < now}
       IN  \E batch \in SUBSET due :
            /\ Cardinality(batch) = Min(take, Cardinality(due))
            /\ cyc' = [pc |-> "pass1",
                       pending |-> batch,
                       unreached |-> {},
                       bw |-> [w \in {k[1] : k \in batch} |-> watches[w]],
                       results |-> <<>>,
                       last |-> None]

\* Pass 1's query: the unsent rows that are due, with their watch, `take` at most.
\* The query names no order: any `take` of them can come back, in any order.
Pass1Select(take) ==
    /\ cyc.pc = "idle"
    /\ LET due == {k \in DOMAIN notifs : ~notifs[k].sent /\ notifs[k].scheduledFor <= now}
       IN  \E batch \in SUBSET due :
            /\ Cardinality(batch) = Min(take, Cardinality(due))
            /\ cyc' = [pc |-> "pass1",
                       pending |-> batch,
                       unreached |-> {},
                       bw |-> [w \in {k[1] : k \in batch} |-> watches[w]],
                       results |-> <<>>,
                       last |-> None]

\* processNotifications is called.
CycleStart(take) ==
    /\ Pass1Select(take)
    /\ UNCHANGED <<now, height, watches, notifs, dispatched, nextId, estimatorVars, httpVars, procVars>>

\* `Bearer ${cronSecret}`
Bearer(credentials) == <<"Bearer", credentials>>

\* verifyCronAuth(request): the 401 response, or null. An unset or empty
\* CRON_SECRET is falsy.
verifyCronAuth(authHeader, cronSecret) ==
    IF cronSecret # None /\ cronSecret[1] # "" /\ authHeader # Some(Bearer(cronSecret[1]))
    THEN Some([status |-> 401, body |-> [error |-> "Unauthorized"]])
    ELSE None

\* The Authorization header of a request: none, the secret, or a guess.
AuthorizationHeaders ==
    {None, Some(Bearer(CronSecret)), Some(Bearer("guess")), Some(<<"Basic", CronSecret>>)}

\* GET or POST /api/cron/notify: verifyCronAuth, then processNotifications.
\* The response of an accepted request follows the cycle.
CronRequest(take) ==
    \E method \in {"GET", "POST"}, authHeader \in AuthorizationHeaders :
        LET authError == verifyCronAuth(authHeader, processEnv.CRON_SECRET)
            received == [route |-> Some("cron/notify"), method |-> method,
                         authorization |-> authHeader, response |-> authError]
        IN  IF authError # None
            THEN /\ http' = received
                 /\ UNCHANGED <<schedVars, estimatorVars, processEnv, procVars>>
            ELSE /\ Pass1Select(take)
                 /\ http' = received
                 /\ UNCHANGED <<now, height, watches, notifs, dispatched, nextId,
                                estimatorVars, processEnv, procVars>>

\* Pass 1's body with the row marked sent before the progress message is sent.
MutPass1Body(k, bw, estimate, delivered) ==
    LET w == k[1]
        blockReached == ~estimate.ok /\ IncludesAlreadyReached(estimate.message)
        unchanged(status, attempted) ==
            [watches |-> watches, notifs |-> notifs, dispatched |-> dispatched,
             status |-> status, last |-> Iteration(k, estimate, attempted, delivered)]
    IN  IF ~estimate.ok /\ ~blockReached
        THEN \* the estimation error is rethrown to the item's catch
             unchanged("failed", FALSE)
        ELSE IF blockReached
        THEN LET terminal == bw.slackWebhookUrl # None /\ bw.reachedNotifiedAt = None
             IN  IF terminal /\ ~delivered
                 THEN \* sendSlackNotification throws
                      unchanged("failed", TRUE)
                 ELSE [watches |-> [watches EXCEPT ![w].reachedNotifiedAt = Some(now)],
                       notifs |-> MarkAllSent(notifs, w, now),
                       dispatched |->
                           IF terminal
                           THEN [dispatched EXCEPT ![<<w, "REACHED">>] = @ + 1]
                           ELSE dispatched,
                       status |-> "sent",
                       last |-> Iteration(k, estimate, terminal, delivered)]
        ELSE LET updated == [watches EXCEPT ![w].currentBlock = estimate.currentBlock,
                                            ![w].estimatedTime = estimate.estimatedDate]
                 moved == Reschedule(notifs, w, estimate.estimatedDate, now)
             IN  IF bw.slackWebhookUrl # None /\ ~delivered
                 THEN \* sendSlackNotification throws, after the rescheduling
                      [watches |-> updated, notifs |-> MarkSent(moved, k, now),
                       dispatched |-> dispatched,
                       status |-> "failed", last |-> Iteration(k, estimate, TRUE, delivered)]
                 ELSE [watches |-> updated,
                       notifs |-> MarkSent(moved, k, now),
                       dispatched |->
                           IF bw.slackWebhookUrl # None
                           THEN [dispatched EXCEPT ![k] = @ + 1]
                           ELSE dispatched,
                       status |-> "sent",
                       last |-> Iteration(k, estimate, bw.slackWebhookUrl # None, delivered)]

\* The body of pass 1's loop for the batch row k of watch snapshot bw, given
\* what estimateBlockTime returns or throws and whether the webhook accepts a
\* message: the tables and the dispatch log after it, and the status pushed
\* to results.
Pass1Body(k, bw, estimate, delivered) ==
    LET w == k[1]
        blockReached == ~estimate.ok /\ IncludesAlreadyReached(estimate.message)
        unchanged(status, attempted) ==
            [watches |-> watches, notifs |-> notifs, dispatched |-> dispatched,
             status |-> status, last |-> Iteration(k, estimate, attempted, delivered)]
    IN  IF ~estimate.ok /\ ~blockReached
        THEN \* the estimation error is rethrown to the item's catch
             unchanged("failed", FALSE)
        ELSE IF blockReached
        THEN LET terminal == bw.slackWebhookUrl # None /\ bw.reachedNotifiedAt = None
             IN  IF terminal /\ ~delivered
                 THEN \* sendSlackNotification throws
                      unchanged("failed", TRUE)
                 ELSE IF w \notin DOMAIN watches
                 THEN \* the watch was cancelled after the query: updateMany
                      \* matches no row and blockWatch.update throws
                      [watches |-> watches, notifs |-> notifs,
                       dispatched |->
                           IF terminal
                           THEN [dispatched EXCEPT ![<<w, "REACHED">>] = @ + 1]
                           ELSE dispatched,
                       status |-> "failed",
                       last |-> Iteration(k, estimate, terminal, delivered)]
                 ELSE [watches |-> [watches EXCEPT ![w].reachedNotifiedAt = Some(now)],
                       notifs |-> MarkAllSent(notifs, w, now),
                       dispatched |->
                           IF terminal
                           THEN [dispatched EXCEPT ![<<w, "REACHED">>] = @ + 1]
                           ELSE dispatched,
                       status |-> "sent",
                       last |-> Iteration(k, estimate, terminal, delivered)]
        ELSE IF w \notin DOMAIN watches
        THEN \* the watch was cancelled after the query: blockWatch.update throws
             unchanged("failed", FALSE)
        ELSE LET updated == [watches EXCEPT ![w].currentBlock = estimate.currentBlock,
                                            ![w].estimatedTime = estimate.estimatedDate]
                 moved == Reschedule(notifs, w, estimate.estimatedDate, now)
             IN  IF bw.slackWebhookUrl # None /\ ~delivered
                 THEN \* sendSlackNotification throws, after the rescheduling
                      [watches |-> updated, notifs |-> moved, dispatched |-> dispatched,
                       status |-> "failed", last |-> Iteration(k, estimate, TRUE, delivered)]
                 ELSE [watches |-> updated,
                       notifs |-> MarkSent(moved, k, now),
                       dispatched |->
                           IF bw.slackWebhookUrl # None
                           THEN [dispatched EXCEPT ![k] = @ + 1]
                           ELSE dispatched,
                       status |-> "sent",
                       last |-> Iteration(k, estimate, bw.slackWebhookUrl # None, delivered)]

\* The iteration that leaves a row whose estimation failed in the batch.
MutPass1Item(env) ==
    /\ cyc.pc = "pass1"
    /\ \E k \in cyc.pending, delivered \in Deliveries(env) :
       \E estimate \in Estimates(env, height, Rat(cyc.bw[k[1]].targetBlock, 1), now) :
        LET bw == cyc.bw[k[1]]
            after == Pass1Body(k, bw, estimate, delivered)
        IN  /\ watches' = after.watches
            /\ notifs' = after.notifs
            /\ dispatched' = after.dispatched
            /\ cyc' = [cyc EXCEPT !.pending = IF after.last.outcome = "error"
                                              THEN @
                                              ELSE @ \ {k},
                                  !.results = Append(@, Result(k, k[2], after.status)),
                                  !.last = Some(after.last)]
    /\ UNCHANGED <<now, height, nextId, estimatorVars, httpVars, procVars>>

\* One iteration of pass 1's loop, for the batch row k.
Pass1Item(env) ==
    /\ cyc.pc = "pass1"
    /\ \E k \in cyc.pending, delivered \in Deliveries(env) :
       \E estimate \in Estimates(env, height, Rat(cyc.bw[k[1]].targetBlock, 1), now) :
        LET bw == cyc.bw[k[1]]
            after == Pass1Body(k, bw, estimate, delivered)
        IN  /\ watches' = after.watches
            /\ notifs' = after.notifs
            /\ dispatched' = after.dispatched
            /\ cyc' = [cyc EXCEPT !.pending = @ \ {k},
                                  !.results = Append(@, Result(k, k[2], after.status)),
                                  !.last = Some(after.last)]
    /\ UNCHANGED <<now, height, nextId, estimatorVars, httpVars, procVars>>

\* Pass 2's query without the condition on the rows of the watch.
MutPass2Select(take) ==
    /\ cyc.pc = "pass1"
    /\ cyc.pending = {}
    /\ LET open == {w \in DOMAIN watches :
                      /\ watches[w].reachedNotifiedAt = None
                      /\ watches[w].slackWebhookUrl # None}
       IN  \E batch \in SUBSET open :
            /\ Cardinality(batch) = Min(take, Cardinality(open))
            /\ cyc' = [cyc EXCEPT !.pc = "pass2",
                                  !.unreached = batch,
                                  !.bw = [w \in batch |-> watches[w]],
                                  !.last = None]
    /\ UNCHANGED <<now, height, watches, notifs, dispatched, nextId, estimatorVars, httpVars, procVars>>

\* Pass 2's query, once pass 1's loop is over: the watches with a webhook, no
\* latch and no unsent row, `take` at most.
Pass2Select(take) ==
    /\ cyc.pc = "pass1"
    /\ cyc.pending = {}
    /\ LET open == {w \in DOMAIN watches :
                      /\ watches[w].reachedNotifiedAt = None
                      /\ watches[w].slackWebhookUrl # None
                      /\ \A k \in NotifsOf(w) : notifs[k].sent}
       IN  \E batch \in SUBSET open :
            /\ Cardinality(batch) = Min(take, Cardinality(open))
            /\ cyc' = [cyc EXCEPT !.pc = "pass2",
                                  !.unreached = batch,
                                  !.bw = [w \in batch |-> watches[w]],
                                  !.last = None]
    /\ UNCHANGED <<now, height, watches, notifs, dispatched, nextId, estimatorVars, httpVars, procVars>>

\* The body of pass 2's loop writing the refreshed height when the target is
\* still ahead.
MutPass2Body(w, bw, estimate, delivered) ==
    LET blockReached == ~estimate.ok /\ IncludesAlreadyReached(estimate.message)
    IN  IF ~blockReached
        THEN [watches |-> IF estimate.ok
                          THEN [watches EXCEPT ![w].currentBlock = estimate.currentBlock]
                          ELSE watches,
              dispatched |-> dispatched, pushed |-> <<>>,
              last |-> Iteration(w, estimate, FALSE, delivered)]
        ELSE IF ~delivered
        THEN [watches |-> watches, dispatched |-> dispatched,
              pushed |-> <<Result(w, "REACHED", "failed")>>,
              last |-> Iteration(w, estimate, TRUE, delivered)]
        ELSE [watches |-> [watches EXCEPT ![w].reachedNotifiedAt = Some(now)],
              dispatched |-> [dispatched EXCEPT ![<<w, "REACHED">>] = @ + 1],
              pushed |-> <<Result(w, "REACHED", "sent")>>,
              last |-> Iteration(w, estimate, TRUE, delivered)]

\* The body of pass 2's loop for the watch w of snapshot bw: the table and the
\* dispatch log after it, and what is pushed to results, if anything.
Pass2Body(w, bw, estimate, delivered) ==
    LET blockReached == ~estimate.ok /\ IncludesAlreadyReached(estimate.message)
    IN  IF ~blockReached
        THEN \* continue: any other error of the estimation is swallowed
             [watches |-> watches, dispatched |-> dispatched, pushed |-> <<>>,
              last |-> Iteration(w, estimate, FALSE, delivered)]
        ELSE IF ~delivered
        THEN \* sendSlackNotification throws
             [watches |-> watches, dispatched |-> dispatched,
              pushed |-> <<Result(w, "REACHED", "failed")>>,
              last |-> Iteration(w, estimate, TRUE, delivered)]
        ELSE IF w \notin DOMAIN watches
        THEN \* the watch was cancelled after the query: blockWatch.update throws
             [watches |-> watches,
              dispatched |-> [dispatched EXCEPT ![<<w, "REACHED">>] = @ + 1],
              pushed |-> <<Result(w, "REACHED", "failed")>>,
              last |-> Iteration(w, estimate, TRUE, delivered)]
        ELSE [watches |-> [watches EXCEPT ![w].reachedNotifiedAt = Some(now)],
              dispatched |-> [dispatched EXCEPT ![<<w, "REACHED">>] = @ + 1],
              pushed |-> <<Result(w, "REACHED", "sent")>>,
              last |-> Iteration(w, estimate, TRUE, delivered)]

\* One iteration of pass 2's loop, for the watch w.
Pass2Item(env) ==
    /\ cyc.pc = "pass2"
    /\ \E w \in cyc.unreached, delivered \in Deliveries(env) :
       \E estimate \in Estimates(env, height, Rat(cyc.bw[w].targetBlock, 1), now) :
        LET bw == cyc.bw[w]
            after == Pass2Body(w, bw, estimate, delivered)
        IN  /\ watches' = after.watches
            /\ dispatched' = after.dispatched
            /\ cyc' = [cyc EXCEPT !.unreached = @ \ {w},
                                  !.results = @ \o after.pushed,
                                  !.last = Some(after.last)]
    /\ UNCHANGED <<now, height, notifs, nextId, estimatorVars, httpVars, procVars>>

\* The response {processed, results} is returned.
CycleEnd ==
    /\ cyc.pc = "pass2"
    /\ cyc.unreached = {}
    /\ cyc' = IdleCycle
    /\ UNCHANGED <<now, height, watches, notifs, dispatched, nextId, estimatorVars, httpVars, procVars>>

Pass1Take == 50

Pass2Take == 20

(***************************************************************************)
(* The estimator's calls, when none is running.                            *)
(***************************************************************************)
NoSample == [arr |-> <<>>, result |-> None]

NoCall == [call |-> None, attempts |-> <<>>]

IdleGather ==
    [pc |-> "idle", network |-> None, silent |-> None, adapter |-> <<>>, outcome |-> None]

\* The worker process is not running.
NoLoop ==
    [pc |-> "off", running |-> FALSE, connected |-> FALSE, cycles |-> 0, silent |-> FALSE,
     caught |-> FALSE, wakeAt |-> None, signal |-> None]

\* The deployment sets CRON_SECRET, and no request has come in.
HttpIdle ==
    /\ processEnv = [CRON_SECRET |-> Some(CronSecret)]
    /\ http = NoRequest
    /\ cyc2 = IdleCycle
    /\ loop = NoLoop

EstimatorIdle ==
    /\ sample = NoSample
    /\ trying = NoCall
    /\ fetching = IdleGather
    /\ request = NoRequest

SchedulerIdle ==
    /\ now = 0
    /\ height = 0
    /\ watches = <<>>
    /\ notifs = <<>>
    /\ dispatched = [m \in MessageKeys(1..MaxWatches) |-> 0]
    /\ nextId = 1
    /\ cyc = IdleCycle
    /\ HttpIdle

(***************************************************************************)
(* The scheduler: subscriptions and a sequence of non-overlapping cycles.  *)
(***************************************************************************)
Init ==
    /\ now = 0
    /\ height = 0
    /\ watches = <<>>
    /\ notifs = <<>>
    /\ dispatched = [m \in MessageKeys(1..MaxWatches) |-> 0]
    /\ nextId = 1
    /\ cyc = IdleCycle
    /\ HttpIdle
    /\ EstimatorIdle

Next ==
    \/ Tick
    \/ AdvanceHeight
    \/ Subscribe(EnvAny, MaxWatches)
    \/ CycleStart(Pass1Take)
    \/ Pass1Item(EnvAny)
    \/ Pass2Select(Pass2Take)
    \/ Pass2Item(EnvAny)
    \/ CycleEnd

Spec == Init /\ [][Next]_vars

(***************************************************************************)
(* app/api/watches/[id]/route.ts: one watch, read or cancelled, while the  *)
(* scheduler runs.                                                         *)
(***************************************************************************)
\* A signed-in user who owns no watch.
OtherUser == "bob"

Callers == {None} \cup {Some(u) : u \in Users \cup {OtherUser}}

\* prisma.blockWatch.findUnique({where: {id, userId}})
findUnique(id, userId) ==
    IF id \in DOMAIN watches /\ watches[id].userId = userId
    THEN Some(watches[id])
    ELSE None

\* GET /api/watches/[id]
WatchGET(session, id) ==
    IF session = None
    THEN [status |-> 401]
    ELSE IF findUnique(id, session[1]) = None
    THEN [status |-> 404]
    ELSE [status |-> 200]

\* DELETE that looks the watch up by id alone.
MutWatchDELETE(session, id) ==
    IF session = None
    THEN [status |-> 401, watches |-> watches, notifs |-> notifs]
    ELSE IF id \notin DOMAIN watches
    THEN [status |-> 404, watches |-> watches, notifs |-> notifs]
    ELSE [status |-> 200,
          watches |-> [w \in DOMAIN watches \ {id} |-> watches[w]],
          notifs |-> [k \in {n \in DOMAIN notifs : n[1] # id} |-> notifs[k]]]

\* DELETE /api/watches/[id]: the tables after it. The foreign key of
\* Notification deletes the rows of the watch with it.
WatchDELETE(session, id) ==
    IF session = None
    THEN [status |-> 401, watches |-> watches, notifs |-> notifs]
    ELSE IF findUnique(id, session[1]) = None
    THEN [status |-> 404, watches |-> watches, notifs |-> notifs]
    ELSE [status |-> 200,
          watches |-> [w \in DOMAIN watches \ {id} |-> watches[w]],
          notifs |-> [k \in {n \in DOMAIN notifs : n[1] # id} |-> notifs[k]]]

\* A request for the watch `id`, any id given out so far. One cancellation
\* is followed to the end of the behaviour.
WatchRequest ==
    /\ \A w \in 1..(nextId - 1) : w \in DOMAIN watches
    /\ \E method \in {"GET", "DELETE"}, session \in Callers, id \in 1..(nextId - 1) :
        LET answer == IF method = "GET"
                      THEN [status |-> WatchGET(session, id).status,
                            watches |-> watches, notifs |-> notifs]
                      ELSE WatchDELETE(session, id)
        IN  /\ http' = [route |-> Some("watches/[id]"), method |-> method,
                        session |-> session, id |-> id,
                        response |-> Some([status |-> answer.status])]
            /\ watches' = answer.watches
            /\ notifs' = answer.notifs
    /\ UNCHANGED <<now, height, dispatched, nextId, cyc, processEnv, procVars, estimatorVars>>

InitWatch ==
    /\ now = 0
    /\ height = 0
    /\ watches = <<>>
    /\ notifs = <<>>
    /\ dispatched = [m \in MessageKeys(1..(MaxWatches + 1)) |-> 0]
    /\ nextId = 1
    /\ cyc = IdleCycle
    /\ HttpIdle
    /\ EstimatorIdle

\* Every watch has a webhook.
EnvWebhook == [EnvOk EXCEPT !.channels = {<<Some(WebhookUrl), None>>}]

NextWatch ==
    \/ Tick
    \/ AdvanceHeight
    \/ Subscribe(EnvWebhook, MaxWatches + 1)
    \/ WatchRequest
    \/ CycleStart(Pass1Take)
    \/ Pass1Item(EnvOk)
    \/ Pass2Select(Pass2Take)
    \/ Pass2Item(EnvOk)
    \/ CycleEnd

SpecWatch == InitWatch /\ [][NextWatch]_vars

(***************************************************************************)
(* Two triggers of the cron route at the same time: a second call of       *)
(* processNotifications runs its awaits interleaved with the first, on the *)
(* same tables.                                                            *)
(***************************************************************************)
\* Pass 1's query of the second call, leaving out the rows another call holds.
MutCycle2Start(take) ==
    /\ cyc2.pc = "idle"
    /\ LET due == {k \in DOMAIN notifs :
                     /\ ~notifs[k].sent
                     /\ notifs[k].scheduledFor <= now
                     /\ k \notin cyc.pending}
       IN  \E batch \in SUBSET due :
            /\ Cardinality(batch) = Min(take, Cardinality(due))
            /\ cyc2' = [pc |-> "pass1",
                        pending |-> batch,
                        unreached |-> {},
                        bw |-> [w \in {k[1] : k \in batch} |-> watches[w]],
                        results |-> <<>>,
                        last |-> None]
    /\ UNCHANGED <<schedVars, estimatorVars, httpVars, loop>>

\* Pass 1's query of the second call.
Cycle2Start(take) ==
    /\ cyc2.pc = "idle"
    /\ LET due == {k \in DOMAIN notifs : ~notifs[k].sent /\ notifs[k].scheduledFor <= now}
       IN  \E batch \in SUBSET due :
            /\ Cardinality(batch) = Min(take, Cardinality(due))
            /\ cyc2' = [pc |-> "pass1",
                        pending |-> batch,
                        unreached |-> {},
                        bw |-> [w \in {k[1] : k \in batch} |-> watches[w]],
                        results |-> <<>>,
                        last |-> None]
    /\ UNCHANGED <<schedVars, estimatorVars, httpVars, loop>>

\* One iteration of pass 1's loop in the second call.
Cycle2Pass1Item(env) ==
    /\ cyc2.pc = "pass1"
    /\ \E k \in cyc2.pending, delivered \in Deliveries(env) :
       \E estimate \in Estimates(env, height, Rat(cyc2.bw[k[1]].targetBlock, 1), now) :
        LET after == Pass1Body(k, cyc2.bw[k[1]], estimate, delivered)
        IN  /\ watches' = after.watches
            /\ notifs' = after.notifs
            /\ dispatched' = after.dispatched
            /\ cyc2' = [cyc2 EXCEPT !.pending = @ \ {k},
                                    !.results = Append(@, Result(k, k[2], after.status)),
                                    !.last = Some(after.last)]
    /\ UNCHANGED <<now, height, nextId, cyc, estimatorVars, httpVars, loop>>

\* Pass 2's query of the second call.
Cycle2Pass2Select(take) ==
    /\ cyc2.pc = "pass1"
    /\ cyc2.pending = {}
    /\ LET open == {w \in DOMAIN watches :
                      /\ watches[w].reachedNotifiedAt = None
                      /\ watches[w].slackWebhookUrl # None
                      /\ \A k \in NotifsOf(w) : notifs[k].sent}
       IN  \E batch \in SUBSET open :
            /\ Cardinality(batch) = Min(take, Cardinality(open))
            /\ cyc2' = [cyc2 EXCEPT !.pc = "pass2",
                                    !.unreached = batch,
                                    !.bw = [w \in batch |-> watches[w]],
                                    !.last = None]
    /\ UNCHANGED <<schedVars, estimatorVars, httpVars, loop>>

\* One iteration of pass 2's loop in the second call.
Cycle2Pass2Item(env) ==
    /\ cyc2.pc = "pass2"
    /\ \E w \in cyc2.unreached, delivered \in Deliveries(env) :
       \E estimate \in Estimates(env, height, Rat(cyc2.bw[w].targetBlock, 1), now) :
        LET after == Pass2Body(w, cyc2.bw[w], estimate, delivered)
        IN  /\ watches' = after.watches
            /\ dispatched' = after.dispatched
            /\ cyc2' = [cyc2 EXCEPT !.unreached = @ \ {w},
                                    !.results = @ \o after.pushed,
                                    !.last = Some(after.last)]
    /\ UNCHANGED <<now, height, notifs, nextId, cyc, estimatorVars, httpVars, loop>>

\* The second call returns its response.
Cycle2End ==
    /\ cyc2.pc = "pass2"
    /\ cyc2.unreached = {}
    /\ cyc2' = IdleCycle
    /\ UNCHANGED <<schedVars, estimatorVars, httpVars, loop>>

NextOverlap ==
    \/ Tick
    \/ AdvanceHeight
    \/ Subscribe(EnvWebhook, MaxWatches)
    \/ CycleStart(Pass1Take)
    \/ Pass1Item(EnvOk)
    \/ Pass2Select(Pass2Take)
    \/ Pass2Item(EnvOk)
    \/ CycleEnd
    \/ Cycle2Start(Pass1Take)
    \/ Cycle2Pass1Item(EnvOk)
    \/ Cycle2Pass2Select(Pass2Take)
    \/ Cycle2Pass2Item(EnvOk)
    \/ Cycle2End

SpecOverlap == Init /\ [][NextOverlap]_vars

(***************************************************************************)
(* The standalone worker (the cron script kept in migration.sql):           *)
(* processNotifications and the 60-second loop around it.                  *)
(***************************************************************************)
\* The worker's query: the unsent rows that are due, with their watch, `take` at
\* most. With no row the function returns at once.
WorkerSelect(take) ==
    /\ cyc.pc = "idle"
    /\ LET due == {k \in DOMAIN notifs : ~notifs[k].sent /\ notifs[k].scheduledFor <= now}
       IN  \E batch \in SUBSET due :
            /\ Cardinality(batch) = Min(take, Cardinality(due))
            /\ cyc' = [pc |-> "worker",
                       pending |-> batch,
                       unreached |-> {},
                       bw |-> [w \in {k[1] : k \in batch} |-> watches[w]],
                       results |-> <<>>,
                       last |-> None]

\* processNotifications is called.
WorkerStart(take) ==
    /\ WorkerSelect(take)
    /\ UNCHANGED <<now, height, watches, notifs, dispatched, nextId, estimatorVars, httpVars, procVars>>

\* The body of the worker's loop for the batch row k of watch snapshot bw: the
\* tables and the dispatch log after it. The worker reads and writes no latch.
WorkerBody(k, bw, estimate, delivered) ==
    LET w == k[1]
        blockReached == ~estimate.ok /\ IncludesAlreadyReached(estimate.message)
        unchanged == [watches |-> watches, notifs |-> notifs, dispatched |-> dispatched]
    IN  IF ~estimate.ok /\ ~blockReached
        THEN \* the estimation error is rethrown to the item's catch and logged
             unchanged
        ELSE IF blockReached
        THEN IF bw.slackWebhookUrl # None /\ ~delivered
             THEN \* sendSlackNotification throws
                  unchanged
             ELSE [watches |-> watches,
                   notifs |-> MarkAllSent(notifs, w, now),
                   dispatched |->
                       IF bw.slackWebhookUrl # None
                       THEN [dispatched EXCEPT ![<<w, "REACHED">>] = @ + 1]
                       ELSE dispatched]
        ELSE LET updated == [watches EXCEPT ![w].currentBlock = estimate.currentBlock,
                                            ![w].estimatedTime = estimate.estimatedDate]
                 moved == Reschedule(notifs, w, estimate.estimatedDate, now)
             IN  IF bw.slackWebhookUrl # None /\ ~delivered
                 THEN \* sendSlackNotification throws, after the rescheduling
                      [watches |-> updated, notifs |-> moved, dispatched |-> dispatched]
                 ELSE [watches |-> updated,
                       notifs |-> MarkSent(moved, k, now),
                       dispatched |->
                           IF bw.slackWebhookUrl # None
                           THEN [dispatched EXCEPT ![k] = @ + 1]
                           ELSE dispatched]

\* One iteration of the worker's loop, for the batch row k.
WorkerItem(env) ==
    /\ cyc.pc = "worker"
    /\ \E k \in cyc.pending, delivered \in Deliveries(env) :
       \E estimate \in Estimates(env, height, Rat(cyc.bw[k[1]].targetBlock, 1), now) :
        LET after == WorkerBody(k, cyc.bw[k[1]], estimate, delivered)
        IN  /\ watches' = after.watches
            /\ notifs' = after.notifs
            /\ dispatched' = after.dispatched
            /\ cyc' = [cyc EXCEPT !.pending = @ \ {k}]
    /\ UNCHANGED <<now, height, nextId, estimatorVars, httpVars, procVars>>

\* processNotifications returns; the loop sleeps INTERVAL_MS and starts over.
WorkerSleep ==
    /\ cyc.pc = "worker"
    /\ cyc.pending = {}
    /\ cyc' = IdleCycle
    /\ UNCHANGED <<now, height, watches, notifs, dispatched, nextId, estimatorVars, httpVars, procVars>>

WorkerTake == 50

\* The worker's loop runs for as long as the process does, here with estimation
\* and delivery succeeding.
WorkerStep ==
    \/ WorkerStart(WorkerTake)
    \/ WorkerItem(EnvOk)
    \/ WorkerSleep

NextWorker ==
    \/ Tick
    \/ AdvanceHeight
    \/ Subscribe(EnvOk, MaxWatches)
    \/ WorkerStep

FairSpecWorker == Init /\ [][NextWorker]_vars /\ WF_vars(WorkerStep)

(***************************************************************************)
(* The entry point of the worker: the loop around processNotifications,    *)
(* its sleep, the signal handlers and the disconnect. The number of cycles *)
(* of a run is bounded by MaxCycles.                                       *)
(***************************************************************************)
INTERVAL_MS == 60000

MaxCycles == 2

Signals == {"SIGINT", "SIGTERM"}

\* The process starts: `let running = true`, the handlers are installed, and
\* the loop is at its test.
WorkerBoots ==
    /\ loop = NoLoop
    /\ loop' = [loop EXCEPT !.pc = "while", !.running = TRUE, !.connected = TRUE]
    /\ UNCHANGED <<schedVars, estimatorVars, httpVars, cyc2>>

\* process.on(sig, ...): running = false. The handler replaces the default
\* action of the signal, so the process goes on.
SignalReceived ==
    /\ loop.pc \in {"while", "cycle", "sleep"}
    /\ \E sig \in Signals : loop' = [loop EXCEPT !.running = FALSE, !.signal = Some(sig)]
    /\ UNCHANGED <<schedVars, estimatorVars, httpVars, cyc2>>

\* while (running): processNotifications is called and runs to its query,
\* which returns the batch or throws; or the loop is left, and
\* prisma.$disconnect() ends the process. No fetch of the estimator has a
\* timeout: in a cycle an endpoint can stay silent, and the estimation that
\* asks it never settles.
LoopTest ==
    /\ loop.pc = "while"
    /\ IF loop.running
       THEN /\ loop.cycles < MaxCycles
            /\ \/ /\ WorkerSelect(WorkerTake)
                  /\ \E silent \in BOOLEAN :
                      loop' = [loop EXCEPT !.pc = "cycle", !.cycles = @ + 1,
                                           !.silent = silent, !.caught = FALSE]
                  /\ UNCHANGED <<now, height, watches, notifs, dispatched, nextId,
                                 estimatorVars, httpVars>>
               \/ /\ loop' = [loop EXCEPT !.pc = "sleep", !.cycles = @ + 1,
                                          !.caught = TRUE,
                                          !.wakeAt = Some(now + INTERVAL_MS)]
                  /\ UNCHANGED <<schedVars, estimatorVars, httpVars>>
       ELSE /\ loop' = [loop EXCEPT !.pc = "stopped", !.connected = FALSE]
            /\ UNCHANGED <<schedVars, estimatorVars, httpVars>>
    /\ UNCHANGED cyc2

\* One iteration of the loop of processNotifications, when its estimation
\* settles.
LoopItem(env) ==
    /\ loop.pc = "cycle"
    /\ ~loop.silent
    /\ WorkerItem(env)

\* processNotifications returns: sleep(INTERVAL_MS) is called.
LoopSleeps ==
    /\ loop.pc = "cycle"
    /\ cyc.pc = "worker"
    /\ cyc.pending = {}
    /\ cyc' = IdleCycle
    /\ loop' = [loop EXCEPT !.pc = "sleep", !.wakeAt = Some(now + INTERVAL_MS)]
    /\ UNCHANGED <<now, height, watches, notifs, dispatched, nextId, estimatorVars, httpVars,
                   cyc2>>

\* The timer of the sleep fires, INTERVAL_MS after it was set or later.
LoopWakes ==
    /\ loop.pc = "sleep"
    /\ now' = Max(now, loop.wakeAt[1])
    /\ loop' = [loop EXCEPT !.pc = "while", !.wakeAt = None]
    /\ UNCHANGED <<height, watches, notifs, dispatched, nextId, cyc, estimatorVars, httpVars,
                   cyc2>>

LoopStep ==
    \/ LoopTest
    \/ LoopItem(EnvAny)
    \/ LoopSleeps
    \/ LoopWakes

NextLoop ==
    \/ Tick
    \/ AdvanceHeight
    \/ Subscribe(EnvOk, MaxWatches)
    \/ WorkerBoots
    \/ SignalReceived
    \/ LoopStep

FairSpecLoop == Init /\ [][NextLoop]_vars /\ WF_vars(LoopStep)

(***************************************************************************)
(* The scheduler when estimation and delivery succeed and cycles keep      *)
(* being triggered, with more watches than the reconciliation pass takes:  *)
(* the pass's batch bound is scaled from 20 to ReconTake, and there are    *)
(* ReconTake + 1 watches.                                                  *)
(***************************************************************************)
ReconTake == 1

InitRecon ==
    /\ now = 0
    /\ height = 0
    /\ watches = <<>>
    /\ notifs = <<>>
    /\ dispatched = [m \in MessageKeys(1..(ReconTake + 1)) |-> 0]
    /\ nextId = 1
    /\ cyc = IdleCycle
    /\ HttpIdle
    /\ EstimatorIdle

CycleStep ==
    \/ CycleStart(Pass1Take)
    \/ Pass1Item(EnvOk)
    \/ Pass2Select(ReconTake)
    \/ Pass2Item(EnvOk)
    \/ CycleEnd

NextRecon ==
    \/ Tick
    \/ AdvanceHeight
    \/ Subscribe(EnvOk, ReconTake + 1)
    \/ CycleStep

FairSpecRecon == InitRecon /\ [][NextRecon]_vars /\ WF_vars(CycleStep)

(***************************************************************************)
(* The scheduler driven to the end: cycles keep being triggered, time      *)
(* passes until the next unsent row is due, and estimation and delivery    *)
(* can fail until FailuresUntil and succeed from then on. Pass 1's batch   *)
(* bound is scaled from 50 to DueTake.                                     *)
(***************************************************************************)
DueTake == 1

FailuresUntil == 2 * TickMs

EnvSettling == IF now < FailuresUntil THEN EnvAny ELSE EnvOk

Unsent == {k \in DOMAIN notifs : ~notifs[k].sent}

\* No unsent row is due: the clock moves on to the first one that is.
TimePasses ==
    /\ Unsent # {}
    /\ \A k \in Unsent : notifs[k].scheduledFor > now
    /\ \E k \in Unsent :
        /\ \A other \in Unsent : notifs[k].scheduledFor <= notifs[other].scheduledFor
        /\ now' = notifs[k].scheduledFor
    /\ UNCHANGED <<height, watches, notifs, dispatched, nextId, cyc, estimatorVars, httpVars, procVars>>

DriveStep ==
    \/ CycleStart(DueTake)
    \/ Pass1Item(EnvSettling)
    \/ Pass2Select(Pass2Take)
    \/ Pass2Item(EnvSettling)
    \/ CycleEnd

NextDrive ==
    \/ Tick
    \/ TimePasses
    \/ AdvanceHeight
    \/ Subscribe(EnvOk, MaxWatches)
    \/ DriveStep

FairSpecDrive ==
    /\ Init
    /\ [][NextDrive]_vars
    /\ WF_vars(Tick)
    /\ WF_vars(TimePasses)
    /\ WF_vars(DriveStep)

(***************************************************************************)
(* The scheduler with a chain whose blocks come four minutes apart, so    *)
(* that a subscription one block before its target is less than five       *)
(* minutes from it; as for FairSpecRecon, estimation and delivery succeed, *)
(* cycles keep being triggered and the reconciliation pass takes ReconTake *)
(* of ReconTake + 1 watches.                                               *)
(***************************************************************************)
EnvShort ==
    [EnvOk EXCEPT !.avgs = {Rat(4 * 60 * 1000, 1)},
                  !.channels = {<<Some(WebhookUrl), None>>}]

ShortStep ==
    \/ CycleStart(Pass1Take)
    \/ Pass1Item(EnvShort)
    \/ Pass2Select(ReconTake)
    \/ Pass2Item(EnvShort)
    \/ CycleEnd

NextShort ==
    \/ Tick
    \/ AdvanceHeight
    \/ Subscribe(EnvShort, ReconTake + 1)
    \/ ShortStep

FairSpecShort == InitRecon /\ [][NextShort]_vars /\ WF_vars(ShortStep)

(***************************************************************************)
(* The subscribe route alone, on every clock and chain head of the bounds. *)
(***************************************************************************)
InitSubscribe ==
    /\ now \in {i * TickMs : i \in 0..MaxTicks}
    /\ height \in 0..MaxHeight
    /\ watches = <<>>
    /\ notifs = <<>>
    /\ dispatched = [m \in MessageKeys(1..MaxWatches) |-> 0]
    /\ nextId = 1
    /\ cyc = IdleCycle
    /\ HttpIdle
    /\ EstimatorIdle

NextSubscribe == Subscribe(EnvWide, MaxWatches)

SpecSubscribe == InitSubscribe /\ [][NextSubscribe]_vars

(***************************************************************************)
(* median alone, on every list of heights of the bounds.                   *)
(***************************************************************************)
MaxSampleLen == 3
MaxSampleHeight == 4

SampleArrays ==
    UNION {[1..n -> 0..MaxSampleHeight] : n \in 1..MaxSampleLen}

InitMedian ==
    /\ SchedulerIdle
    /\ sample \in {[arr |-> arr, result |-> None] : arr \in SampleArrays}
    /\ trying = NoCall
    /\ fetching = IdleGather
    /\ request = NoRequest

CallMedian ==
    /\ sample.result = None
    /\ sample' = [sample EXCEPT !.result = Some(median(sample.arr))]
    /\ UNCHANGED <<schedVars, httpVars, procVars, trying, fetching, request>>

NextMedian == CallMedian

SpecMedian == InitMedian /\ [][NextMedian]_vars

(***************************************************************************)
(* tryMultiple alone, on every url list of NETWORKS, with fn settling in   *)
(* every way.                                                              *)
(***************************************************************************)
UrlLists ==
    UNION {{NETWORKS[n].rpcUrls, NETWORKS[n].tendermintRpcUrls, NETWORKS[n].cosmosApiUrls} :
              n \in Networks}

\* Messages of the errors fn can throw: one of them is empty, one holds the
\* separator of the aggregate message.
ErrorMessages == {<<"fetch failed">>, <<"rate limited", ", ", "retry later">>, <<>>}

FnSettlements ==
    {Returned(h) : h \in 0..MaxHeight} \cup {Threw(m) : m \in ErrorMessages}

InitTryMultiple ==
    /\ SchedulerIdle
    /\ sample = NoSample
    /\ trying \in {[call |-> Some(StartTryMultiple(urls)), attempts |-> <<>>] : urls \in UrlLists}
    /\ fetching = IdleGather
    /\ request = NoRequest

\* fn(url) settles for the url the loop is at; the attempt is recorded.
FnSettles ==
    /\ trying.call # None
    /\ trying.call[1].status = "pending"
    /\ \E settled \in FnSettlements :
        LET t == trying.call[1]
        IN  trying' = [call |-> Some(tryMultiple(t, settled)),
                       attempts |-> Append(trying.attempts,
                                           [url |-> t.urls[t.i], settled |-> settled])]
    /\ UNCHANGED <<schedVars, httpVars, procVars, sample, fetching, request>>

NextTryMultiple == FnSettles

SpecTryMultiple == InitTryMultiple /\ [][NextTryMultiple]_vars

(***************************************************************************)
(* gatherNetworkData(network): the three adapters run concurrently, each   *)
(* one await at a time; Promise.allSettled waits for the three.            *)
(***************************************************************************)
Adapters == {"ethRpc", "tendermint", "cosmosApi"}

\* The height of the earlier block adapter a takes its second timestamp from,
\* for the latest height latestHeight: sampleSize blocks back, and no lower than
\* block 0 for ethRpc and block 1 for tendermint and cosmosApi.
EarlierBlock(a, latestHeight) ==
    CASE a = "ethRpc" -> Max(0, latestHeight - 100)
      [] a = "tendermint" -> Max(1, latestHeight - 200)
      [] a = "cosmosApi" -> Max(1, latestHeight - 100)

\* The number of blocks adapter a divides the time difference by.
BlocksDiff(a, latestHeight) == latestHeight - EarlierBlock(a, latestHeight)

\* timeDiffMs / blocksDiff of adapter a at the height latestHeight, on a
\* chain whose blocks are blockTime apart: the time difference is that of
\* blocksDiff blocks; with the earlier block being the latest block itself
\* the two timestamps are the same and the quotient is 0 / 0.
AvgBlockTimeMs(a, latestHeight, blockTime) ==
    IF BlocksDiff(a, latestHeight) = 0 THEN ZeroOverZero ELSE blockTime

UrlsOf(network, a) ==
    CASE a = "ethRpc" -> NETWORKS[network].rpcUrls
      [] a = "tendermint" -> NETWORKS[network].tendermintRpcUrls
      [] a = "cosmosApi" -> NETWORKS[network].cosmosApiUrls

AllUrlsOf(network) ==
    UNION {{UrlsOf(network, a)[i] : i \in 1..Len(UrlsOf(network, a))} : a \in Adapters}

\* An endpoint that answers reports some height or fails; its failure's message
\* names it.
EndpointAnswers(url) ==
    {Returned(h) : h \in 0..MaxHeight} \cup {Threw(<<"request to ", url, " failed">>)}

\* gatherNetworkData(network) is called: the three async functions run to
\* their first fetch. At most one endpoint of the network, `silent`, never
\* answers a request.
CallGatherNetworkData(network) ==
    /\ fetching.pc = "idle"
    /\ \E silent \in {None} \cup {Some(u) : u \in AllUrlsOf(network)} :
        fetching' =
            [pc |-> "pending",
             network |-> Some(network),
             silent |-> silent,
             adapter |-> [a \in Adapters |->
                             [phase |-> "tryMultiple",
                              call |-> StartTryMultiple(UrlsOf(network, a)),
                              asked |-> [height |-> None, earlier |-> None],
                              result |-> None]],
             outcome |-> None]

GatherStart ==
    /\ \E network \in Networks : CallGatherNetworkData(network)
    /\ UNCHANGED <<schedVars, httpVars, procVars, sample, trying, request>>

\* The endpoint adapter a's tryMultiple is at answers fn's request (for
\* tendermint fn is fetchBlockTimeFromTendermint, its two fetches to the same
\* url taken together). `asked` keeps the url each fetch that was answered
\* went to: the one fn was called with, and the one the lookup was given. When tryMultiple returns, the tendermint adapter is
\* fulfilled and the other two go on to their earlier-block lookup on the
\* returned url; when it throws, the adapter is rejected.
AttemptSettles(a) ==
    /\ fetching.pc = "pending"
    /\ fetching.adapter[a].phase = "tryMultiple"
    /\ LET t == fetching.adapter[a].call
       IN  /\ t.status = "pending"
           /\ Some(t.urls[t.i]) # fetching.silent
           /\ \E settled \in EndpointAnswers(t.urls[t.i]), avg \in AvgBlockTimes :
               LET c == tryMultiple(t, settled)
                   asked == fetching.adapter[a].asked
                   after ==
                       IF c.status = "pending"
                       THEN [phase |-> "tryMultiple", call |-> c, asked |-> asked,
                             result |-> None]
                       ELSE IF c.status = "thrown"
                       THEN [phase |-> "rejected", call |-> c, asked |-> asked,
                             result |-> Some(Rejected)]
                       ELSE IF a = "tendermint"
                       THEN [phase |-> "fulfilled", call |-> c,
                             asked |-> [height |-> Some(t.urls[t.i]),
                                        earlier |-> Some(t.urls[t.i])],
                             result |-> Some(Fulfilled(c.result[1],
                                                       AvgBlockTimeMs(a, c.result[1], avg),
                                                       c.url[1]))]
                       ELSE [phase |-> "lookup", call |-> c,
                             asked |-> [height |-> Some(t.urls[t.i]), earlier |-> None],
                             result |-> None]
               IN  fetching' = [fetching EXCEPT !.adapter[a] = after]
    /\ UNCHANGED <<schedVars, httpVars, procVars, sample, trying, request>>

\* The earlier-block lookup of the ethRpc adapter (Promise.all of the two
\* timestamp fetches) or of the cosmosApi adapter settles: the adapter is
\* fulfilled, or rejected with the lookup's error.
LookupSettles(a) ==
    /\ fetching.pc = "pending"
    /\ fetching.adapter[a].phase = "lookup"
    /\ LET c == fetching.adapter[a].call
           asked == fetching.adapter[a].asked
       IN  \E answered \in BOOLEAN, avg \in AvgBlockTimes :
            fetching' =
                [fetching EXCEPT !.adapter[a] =
                    IF answered
                    THEN [phase |-> "fulfilled", call |-> c,
                          asked |-> [asked EXCEPT !.earlier = c.url],
                          result |-> Some(Fulfilled(c.result[1],
                                                    AvgBlockTimeMs(a, c.result[1], avg),
                                                    c.url[1]))]
                    ELSE [phase |-> "rejected", call |-> c, asked |-> asked,
                          result |-> Some(Rejected)]]
    /\ UNCHANGED <<schedVars, httpVars, procVars, sample, trying, request>>

\* Promise.allSettled resolves once the three adapters have settled, and the
\* rest of gatherNetworkData runs.
GatherSettles ==
    /\ fetching.pc = "pending"
    /\ \A a \in Adapters : fetching.adapter[a].result # None
    /\ fetching' =
        [fetching EXCEPT
            !.pc = "settled",
            !.outcome = Some(gatherNetworkData(fetching.adapter["ethRpc"].result[1],
                                               fetching.adapter["tendermint"].result[1],
                                               fetching.adapter["cosmosApi"].result[1]))]
    /\ UNCHANGED <<schedVars, httpVars, procVars, sample, trying, request>>

InitGather ==
    /\ SchedulerIdle
    /\ EstimatorIdle

\* The event loop runs every continuation that is ready.
GatherStep ==
    \/ \E a \in Adapters : AttemptSettles(a)
    \/ \E a \in Adapters : LookupSettles(a)
    \/ GatherSettles

NextGather ==
    \/ GatherStart
    \/ GatherStep

SpecGather == InitGather /\ [][NextGather]_vars

FairSpecGather == InitGather /\ [][NextGather]_vars /\ WF_vars(GatherStep)

(***************************************************************************)
(* app/api/estimate/route.ts and app/api/time-to-block/route.ts: the query *)
(* endpoints. A request is answered in one step; it reads the chain through *)
(* gatherNetworkData and writes nothing.                                   *)
(***************************************************************************)
NaN == [nan |-> TRUE]

isNaN(x) == x = NaN

\* The decimal texts of the query parameters, with the number each denotes.
DecimalTexts ==
    ("0" :> Rat(0, 1)) @@ ("1" :> Rat(1, 1)) @@ ("2" :> Rat(2, 1)) @@ ("3" :> Rat(3, 1))
    @@ ("0.5" :> Rat(1, 2)) @@ ("2.5" :> Rat(5, 2))

\* Number(text): the whole text has to be a numeral.
Number(text) == IF text \in DOMAIN DecimalTexts THEN DecimalTexts[text] ELSE NaN

\* parseFloat(text): the longest numeral the text starts with.
parseFloat(text) ==
    IF text \in DOMAIN DecimalTexts THEN DecimalTexts[text]
    ELSE IF text = "2x" THEN DecimalTexts["2"]
    ELSE NaN

NumberTexts == DOMAIN DecimalTexts \cup {"2x", "abc"}

\* The ISO 8601 texts of the `time` parameter, with the time value of each.
TimeTexts ==
    ("1970-01-01T00:00:00.000Z" :> 0)
    @@ ("1970-01-01T00:05:00.000Z" :> TickMs)
    @@ ("1970-01-01T00:05:00.001Z" :> TickMs + 1)
    @@ ("1970-01-01T00:05:25.000Z" :> TickMs + 25000)

\* new Date(text)
Date(text) ==
    IF text \in DOMAIN TimeTexts THEN [valid |-> TRUE, time |-> TimeTexts[text]] ELSE InvalidDate

toISOString(date) == CHOOSE text \in DOMAIN TimeTexts : TimeTexts[text] = date.time

\* A query parameter is absent or a text.
BlockParams == {None} \cup {Some(text) : text \in NumberTexts}

TimeParams == {None} \cup {Some(text) : text \in DOMAIN TimeTexts \cup {"tomorrow"}}

NetworkParams == {None, Some("XRPL_EVM_MAINNET"), Some("DOGE")}

\* The endpoints a query reads: blocks of two seconds, or a little more.
EnvQuery ==
    [avgs |-> {Rat(2000, 1), Rat(4001, 2)}, lags |-> {0, 1}, reject |-> TRUE,
     deliveryFails |-> FALSE, networks |-> Networks, channels |-> {}]

\* !network || !["XRPL_EVM_MAINNET", "XRPL_EVM_TESTNET"].includes(network)
InvalidNetwork(network) == network = None \/ network[1] \notin Networks

\* NextResponse.json(body, {status}); the status is 200 where none is given.
Response(status, body) == [status |-> status, body |-> body]

InvalidBlockMsg == "Invalid block number. Must be a positive integer."

InvalidNetworkMsg == "Invalid network. Must be XRPL_EVM_MAINNET or XRPL_EVM_TESTNET."

\* The fields of a returned estimate, as the response body carries them.
Body(estimate) == [f \in DOMAIN estimate \ {"ok"} |-> estimate[f]]

\* GET /api/estimate?block=..&network=.. at nowMs, where gatherNetworkData
\* returns or throws `data`.
EstimateGET(block, network, data, nowMs) ==
    IF block = None \/ isNaN(Number(block[1])) \/ RatSign(Number(block[1])) <= 0
    THEN Response(400, [error |-> InvalidBlockMsg])
    ELSE IF InvalidNetwork(network)
    THEN Response(400, [error |-> InvalidNetworkMsg])
    ELSE LET estimate == estimateBlockTime(data, Number(block[1]), nowMs)
         IN  IF estimate.ok
             THEN Response(200, Body(estimate))
             ELSE Response(422, [error |-> estimate.message])

\* customBlockTimeMs of the time-to-block route: undefined without a
\* blockTime parameter, else the parsed seconds in milliseconds.
CustomBlockTimeMs(blockTimeParam) ==
    IF blockTimeParam = None THEN None ELSE Some(RatMulInt(parseFloat(blockTimeParam[1]), 1000))

\* GET /api/time-to-block?time=..&network=..&blockTime=.. at nowMs. The call
\* passes three arguments; estimateBlockAtTime binds the first two.
TimeToBlockGET(time, network, blockTimeParam, data, nowMs) ==
    IF time = None
    THEN Response(400, [error |-> "Missing 'time' parameter. Provide an ISO 8601 date string."])
    ELSE IF ~Date(time[1]).valid
    THEN Response(400, [error |-> "Invalid date format. Provide an ISO 8601 date string."])
    ELSE IF InvalidNetwork(network)
    THEN Response(400, [error |-> InvalidNetworkMsg])
    ELSE IF /\ blockTimeParam # None
            /\ \/ isNaN(parseFloat(blockTimeParam[1]))
               \/ RatSign(parseFloat(blockTimeParam[1])) <= 0
    THEN Response(400, [error |-> "Invalid blockTime. Must be a positive number in seconds."])
    ELSE LET arguments == <<network[1], Date(time[1]), CustomBlockTimeMs(blockTimeParam)>>
             estimate == estimateBlockAtTime(data, arguments[2], nowMs)
         IN  IF estimate.ok
             THEN Response(200, [Body(estimate) EXCEPT !.targetDate = toISOString(@)])
             ELSE Response(422, [error |-> estimate.message])

\* What a request leaves behind: its parameters, the clock, what
\* gatherNetworkData answered if the handler got as far as calling it, and
\* the response.
Answered(route, query, data, nowMs, response) ==
    [route |-> Some(route), query |-> query, nowMs |-> nowMs,
     data |-> IF response.status = 400 THEN None ELSE Some(data),
     response |-> response]

\* The endpoints keep nothing between requests, so a behaviour of the model
\* holds one request: the handler runs on the first request and `request`
\* keeps what it answered.
GetEstimate(env) ==
    /\ request = NoRequest
    /\ \E data \in Aggregates(env, height) :
        \E block \in BlockParams, network \in NetworkParams :
            request' = Answered("estimate", [block |-> block, network |-> network], data, now,
                                EstimateGET(block, network, data, now))
    /\ UNCHANGED <<schedVars, httpVars, procVars, sample, trying, fetching>>

GetTimeToBlock(env) ==
    /\ request = NoRequest
    /\ \E data \in Aggregates(env, height) :
        \E time \in TimeParams, network \in NetworkParams, blockTime \in BlockParams :
            request' = Answered("time-to-block",
                                [time |-> time, network |-> network, blockTime |-> blockTime],
                                data, now,
                                TimeToBlockGET(time, network, blockTime, data, now))
    /\ UNCHANGED <<schedVars, httpVars, procVars, sample, trying, fetching>>

NextQuery ==
    \/ Tick
    \/ AdvanceHeight
    \/ GetEstimate(EnvQuery)
    \/ GetTimeToBlock(EnvQuery)

SpecQuery == Init /\ [][NextQuery]_vars

(***************************************************************************)
(* The two estimators one after the other: estimateBlockTime for a target  *)
(* block, then estimateBlockAtTime for the date it returned, on the same   *)
(* aggregate and at the same Date.now().                                   *)
(***************************************************************************)
\* The target blocks asked for: whole ones up to one block over the highest
\* chain head, and one between two blocks.
TargetBlocks == {Rat(t, 1) : t \in 1..(MaxHeight + 1)} \cup {Rat(5, 2)}

RoundTrip(env) ==
    /\ request = NoRequest
    /\ \E data \in Aggregates(env, height), targetBlock \in TargetBlocks :
        LET there == estimateBlockTime(data, targetBlock, now)
            back ==
                IF there.ok
                THEN Some(estimateBlockAtTime(data,
                                              [valid |-> TRUE, time |-> there.estimatedDate],
                                              now))
                ELSE None
        IN  request' = [route |-> Some("round trip"), data |-> data, nowMs |-> now,
                        targetBlock |-> targetBlock, there |-> there, back |-> back]
    /\ UNCHANGED <<schedVars, httpVars, procVars, sample, trying, fetching>>

NextRoundTrip ==
    \/ Tick
    \/ AdvanceHeight
    \/ RoundTrip(EnvQuery)

SpecRoundTrip == Init /\ [][NextRoundTrip]_vars

(***************************************************************************)
(* The scheduler behind its HTTP trigger, in a deployment that sets        *)
(* CRON_SECRET, sets it to the empty text, or leaves it unset.             *)
(***************************************************************************)
InitCron ==
    /\ now = 0
    /\ height = 0
    /\ watches = <<>>
    /\ notifs = <<>>
    /\ dispatched = [m \in MessageKeys(1..MaxWatches) |-> 0]
    /\ nextId = 1
    /\ cyc = IdleCycle
    /\ processEnv \in {[CRON_SECRET |-> secret] : secret \in {None, Some(""), Some(CronSecret)}}
    /\ http = NoRequest
    /\ cyc2 = IdleCycle
    /\ loop = NoLoop
    /\ EstimatorIdle

NextCron ==
    \/ Tick
    \/ AdvanceHeight
    \/ Subscribe(EnvOk, MaxWatches)
    \/ CronRequest(Pass1Take)
    \/ Pass1Item(EnvOk)
    \/ Pass2Select(Pass2Take)
    \/ Pass2Item(EnvOk)
    \/ CycleEnd

SpecCron == InitCron /\ [][NextCron]_vars

(***************************************************************************)
(* The subscribe route answering any request.                              *)
(***************************************************************************)
NextSubscribeRequest == SubscribeRequest(EnvAny, MaxWatches)

SpecSubscribeRequest == InitSubscribe /\ [][NextSubscribeRequest]_vars

(***************************************************************************)
(* A subscription request, from its call of estimateBlockTime to its       *)
(* response, with the ten-second timer of the route and the event loop     *)
(* running every continuation that is ready.                               *)
(***************************************************************************)
\* The request passed the checks of the session, of targetBlock and network
\* and of the channels: the AbortController is created, the timer is set and
\* estimateBlockTime is called, which calls gatherNetworkData.
SubscribeCalls(env, maxWatches) ==
    /\ http = NoRequest
    /\ nextId <= maxWatches
    /\ \E session \in Sessions, body \in Bodies(env) :
        /\ session # None
        /\ body.targetBlock # None
        /\ RatSign(body.targetBlock[1]) # 0
        /\ body.network # None
        /\ body.slackWebhookUrl # None \/ body.email # None
        /\ CallGatherNetworkData(body.network[1])
        /\ http' = [route |-> Some("subscribe"), session |-> session, body |-> body,
                    timeout |-> "set", aborted |-> FALSE,
                    estimation |-> None, response |-> None]
    /\ UNCHANGED <<schedVars, processEnv, procVars, sample, trying, request>>

\* The timer expires: controller.abort(). The signal of the controller was
\* given to no fetch and has no listener, so no call is cancelled.
TimeoutExpires ==
    /\ http.route = Some("subscribe")
    /\ http.timeout = "set"
    /\ http' = [http EXCEPT !.timeout = "expired", !.aborted = TRUE]
    /\ UNCHANGED <<schedVars, processEnv, procVars, estimatorVars>>

\* estimateBlockTime settles: clearTimeout in the finally block, then the
\* create and the response, or the response of the catch.
SubscribeResumes ==
    /\ http.route = Some("subscribe")
    /\ http.response = None
    /\ fetching.pc = "settled"
    /\ LET answer == SubscribePOST(http.session, http.body, fetching.outcome[1], now)
       IN  /\ http' = [http EXCEPT
                        !.timeout = IF @ = "set" THEN "cleared" ELSE @,
                        !.estimation = answer.estimation,
                        !.response = Some([status |-> answer.status])]
           /\ IF answer.status = 200
              THEN /\ watches' = WatchesWith(nextId, answer.created[1])
                   /\ notifs' = NotifsWith(nextId, answer.created[1])
                   /\ nextId' = nextId + 1
              ELSE UNCHANGED <<watches, notifs, nextId>>
    /\ UNCHANGED <<now, height, dispatched, cyc, processEnv, procVars, estimatorVars>>

NextSubscribeTimeout ==
    \/ SubscribeCalls(EnvOk, MaxWatches)
    \/ GatherStep
    \/ TimeoutExpires
    \/ SubscribeResumes

FairSpecSubscribeTimeout ==
    /\ InitGather
    /\ [][NextSubscribeTimeout]_vars
    /\ WF_vars(GatherStep)
    /\ WF_vars(TimeoutExpires)
    /\ WF_vars(SubscribeResumes)

(***************************************************************************)
(* The claims.                                                             *)
(***************************************************************************)

\* C1: over a sequence of non-overlapping cycles of the cron route, at most
\* one terminal REACHED notification is ever dispatched for a watch,
\* whatever the batch holds (several due rows of one watch included) and
\* whether or not the reconciliation pass evaluates the watch too.
C1_AtMostOneTerminal ==
    \A m \in DOMAIN dispatched : m[2] = "REACHED" => dispatched[m] <= 1

\* The watch w has a webhook, no unsent Notification, no latch, and its
\* target height is reached.
C2_Awaiting(w) ==
    /\ w \in DOMAIN watches
    /\ watches[w].slackWebhookUrl # None
    /\ watches[w].reachedNotifiedAt = None
    /\ \A k \in NotifsOf(w) : notifs[k].sent
    /\ height >= watches[w].targetBlock

\* The terminal notification of watch w is dispatched and its latch is set.
C2_Notified(w) ==
    /\ w \in DOMAIN watches
    /\ watches[w].reachedNotifiedAt # None
    /\ dispatched[<<w, "REACHED">>] >= 1

\* C2: in the cron route's cycle, every watch that has a webhook, no unsent
\* Notification and no latch, and whose target height has been reached,
\* eventually has its terminal REACHED notification dispatched and its latch
\* set, when cycles keep being triggered and estimation and delivery succeed;
\* also when more watches qualify for the reconciliation pass than it takes
\* and some of them are not yet reached.
C2_ReachedEventuallyNotified ==
    \A w \in 1..(ReconTake + 1) : C2_Awaiting(w) ~> C2_Notified(w)

\* The watch w has a webhook, its target is reached, no unsent tier row is
\* left (the last one was sent while the target was ahead, or there never
\* was one) and no final message has gone out.
C3_Awaiting(w) ==
    /\ w \in DOMAIN watches
    /\ watches[w].slackWebhookUrl # None
    /\ \A k \in NotifsOf(w) : notifs[k].sent
    /\ height >= watches[w].targetBlock
    /\ dispatched[<<w, "REACHED">>] = 0

\* C3: in the standalone worker's loop, a webhook watch whose target is
\* reached eventually gets its final REACHED notification, also when no
\* unsent Notification of it is left by then.
C3_WorkerEventuallySendsReached ==
    \A w \in 1..MaxWatches : C3_Awaiting(w) ~> (dispatched[<<w, "REACHED">>] >= 1)

\* The tier offsets as the product states them, in minutes.
C4_OffsetMinutes(t) ==
    CASE t = "ONE_DAY" -> 1440
      [] t = "SIX_HOURS" -> 360
      [] t = "ONE_HOUR" -> 60
      [] t = "FIFTEEN_MINUTES" -> 15
      [] t = "FIVE_MINUTES" -> 5

\* C4: a subscription creates, together with the BlockWatch, exactly the
\* Notification rows of the tiers whose scheduled time (estimatedTime minus
\* the tier's offset: 1 day, 6 hours, 1 hour, 15 minutes, 5 minutes) is
\* strictly after now, each with scheduledFor = estimatedTime - offset and
\* sent = false; for an estimate 10 minutes ahead, the FIVE_MINUTES row only.
C4_SubscriptionCreatesFutureTiers ==
    [][/\ \A w \in (DOMAIN watches') \ (DOMAIN watches) :
            LET est == watches'[w].estimatedTime
                at(t) == est - C4_OffsetMinutes(t) * 60 * 1000
                created == {k[2] : k \in {x \in DOMAIN notifs' : x[1] = w}}
            IN  /\ created = {t \in TierSet : at(t) > now}
                /\ \A t \in created :
                        notifs'[<<w, t>>] =
                            [scheduledFor |-> at(t), sent |-> FALSE, sentAt |-> None]
                /\ est - now = 10 * 60 * 1000 => created = {"FIVE_MINUTES"}
       /\ \A k \in (DOMAIN notifs') \ (DOMAIN notifs) : k[1] \notin DOMAIN watches
      ]_vars

\* C4, reached: a watch subscribed ten minutes ahead of its estimate, with
\* its one row.
C4_Witness ==
    \E w \in DOMAIN watches :
        /\ watches[w].estimatedTime - now = 10 * 60 * 1000
        /\ NotifsOf(w) = {<<w, "FIVE_MINUTES">>}
        /\ ~notifs[<<w, "FIVE_MINUTES">>].sent

\* The adapters of the settled aggregation that succeeded.
Succeeded == {a \in Adapters : fetching.adapter[a].phase = "fulfilled"}

\* C5: the aggregate's confidence is "high" iff exactly 3 adapters
\* succeeded, "medium" iff exactly 2, "low" iff exactly 1; with none the
\* aggregation fails and carries no confidence.
C5_ConfidenceCountsSuccesses ==
    fetching.pc = "settled" =>
        LET n == Cardinality(Succeeded)
            out == fetching.outcome[1]
        IN  /\ (n = 0) <=> ~out.ok
            /\ ~out.ok => "confidence" \notin DOMAIN out
            /\ out.ok =>
                /\ (out.confidence = "high") <=> (n = 3)
                /\ (out.confidence = "medium") <=> (n = 2)
                /\ (out.confidence = "low") <=> (n = 1)

\* C5, reached: an aggregation settled with exactly two adapters succeeded.
C5_Witness ==
    /\ fetching.pc = "settled"
    /\ Cardinality(Succeeded) = 2
    /\ fetching.outcome[1].ok
    /\ fetching.outcome[1].confidence = "medium"

\* The k-th smallest value of the list arr, counted with repetitions.
KthSmallest(arr, k) ==
    CHOOSE v \in {arr[i] : i \in DOMAIN arr} :
        /\ Cardinality({i \in DOMAIN arr : arr[i] < v}) < k
        /\ Cardinality({i \in DOMAIN arr : arr[i] <= v}) >= k

\* m is the middle value of arr for an odd length, and the floor of the mean
\* of its two middle values for an even length.
IsMedianOf(m, arr) ==
    LET n == Len(arr)
    IN  IF n % 2 = 1
        THEN m = KthSmallest(arr, (n + 1) \div 2)
        ELSE LET lo == KthSmallest(arr, n \div 2)
                 hi == KthSmallest(arr, n \div 2 + 1)
             IN  2 * m <= lo + hi /\ lo + hi < 2 * m + 2

\* C6: median of a non-empty list of integer heights is the middle value of
\* the sorted list for an odd length and the floor of the mean of the two
\* middle values for an even length ([10,12,14] gives 12, [10,12] gives 11);
\* it is an integer between the least and the greatest input, and the same
\* for every order of the input.
C6_MedianIsMiddleValue ==
    /\ median(<<10, 12, 14>>) = 12
    /\ median(<<10, 12>>) = 11
    /\ sample.result # None =>
        LET arr == sample.arr
            m == sample.result[1]
        IN  /\ IsMedianOf(m, arr)
            /\ m \in Int
            /\ \E i \in DOMAIN arr : arr[i] <= m
            /\ \E i \in DOMAIN arr : m <= arr[i]
            /\ \A i \in DOMAIN arr : \E lo \in DOMAIN arr, hi \in DOMAIN arr :
                    arr[lo] <= arr[i] /\ arr[i] <= arr[hi] /\ arr[lo] <= m /\ m <= arr[hi]
            /\ \A p \in Permutations(DOMAIN arr) :
                    median([i \in DOMAIN arr |-> arr[p[i]]]) = m

\* C6, reached: median was called on an unsorted list of even length whose
\* two values have an odd sum.
C6_Witness ==
    /\ sample.arr = <<3, 0>>
    /\ sample.result = Some(1)

\* The heights of the adapters that succeeded, in the order of the adapters.
SucceededHeights ==
    LET order == <<"ethRpc", "tendermint", "cosmosApi">>
        ok == SelectSeq(order, LAMBDA a : a \in Succeeded)
    IN  [i \in 1..Len(ok) |-> fetching.adapter[ok[i]].result[1].height]

\* C7: the aggregation fails iff the three adapters fail; otherwise
\* currentBlock is the median of the heights of exactly the adapters that
\* succeeded, and the per-source detail is non-null exactly for them.
C7_FailsOnlyWhenAllFail ==
    fetching.pc = "settled" =>
        LET out == fetching.outcome[1]
        IN  /\ ~out.ok <=> (\A a \in Adapters : fetching.adapter[a].phase = "rejected")
            /\ out.ok =>
                /\ IsMedianOf(out.currentBlock, SucceededHeights)
                /\ \A a \in Adapters : (out.sources[a] # None) <=> (a \in Succeeded)
                /\ \A a \in Succeeded :
                        /\ out.sources[a][1].blockHeight = fetching.adapter[a].result[1].height
                        /\ out.sources[a][1].url = fetching.adapter[a].result[1].url

\* C7, reached: an aggregation settled successfully although the tendermint
\* adapter failed, the other two reporting different heights.
C7_Witness ==
    /\ fetching.pc = "settled"
    /\ fetching.outcome[1].ok
    /\ fetching.adapter["tendermint"].phase = "rejected"
    /\ Succeeded = {"ethRpc", "cosmosApi"}
    /\ fetching.adapter["ethRpc"].result[1].height = 2
    /\ fetching.adapter["cosmosApi"].result[1].height = 1
    /\ fetching.outcome[1].currentBlock = 1

\* C8: an aggregation that was started eventually settles, also when an
\* endpoint of one adapter never answers.
C8_AggregationSettles ==
    (fetching.pc = "pending") ~> (fetching.pc = "settled")

\* C9: tryMultiple attempts the urls in list order, one at a time and each
\* at most once, a url only after every url before it has failed; it stops
\* at the first url whose operation succeeds and returns that operation's
\* result with that url.
C9_TriesInOrderUntilFirstSuccess ==
    trying.call # None =>
        LET t == trying.call[1]
            att == trying.attempts
            n == Len(att)
        IN  /\ n <= Len(t.urls)
            /\ \A j \in 1..n : att[j].url = t.urls[j]
            /\ \A j \in 1..(n - 1) : ~att[j].settled.ok
            /\ t.status = "pending" => \A j \in 1..n : ~att[j].settled.ok
            /\ (n >= 1 /\ att[n].settled.ok) => t.status = "returned"
            /\ t.status = "returned" =>
                /\ n >= 1
                /\ att[n].settled.ok
                /\ t.result = Some(att[n].settled.value)
                /\ t.url = Some(att[n].url)

\* C9, reached: tryMultiple returned from its third url, after two failures.
C9_Witness ==
    /\ trying.call # None
    /\ trying.call[1].status = "returned"
    /\ Len(trying.attempts) = 3
    /\ trying.call[1].url = Some(trying.call[1].urls[3])

\* Where the message of the j-th attempt starts in the aggregate message:
\* after the heading, the messages before it and their separators.
RECURSIVE MessageStart(_, _)
MessageStart(att, j) ==
    IF j = 1 THEN 2
    ELSE MessageStart(att, j - 1) + Len(att[j - 1].settled.message) + 1

\* C10: when every url fails, tryMultiple fails with one aggregate error
\* whose message embeds the failure message of every attempted url, one per
\* url, in the order of the attempts; it returns no result then.
C10_AggregateErrorEmbedsEveryFailure ==
    trying.call # None =>
        LET t == trying.call[1]
            att == trying.attempts
            n == Len(att)
            allFailed == n = Len(t.urls) /\ \A j \in 1..n : ~att[j].settled.ok
            part(j) == att[j].settled.message
        IN  /\ t.status = "thrown" => allFailed
            /\ allFailed =>
                /\ t.status = "thrown"
                /\ t.result = None
                /\ t.url = None
                /\ t.message # None
                /\ LET text == t.message[1]
                   IN  /\ Len(text) = MessageStart(att, n) + Len(part(n)) - 1
                       /\ text[1] = "All endpoints failed: "
                       /\ \A j \in 1..n :
                            SubSeq(text, MessageStart(att, j),
                                   MessageStart(att, j) + Len(part(j)) - 1) = part(j)
                       /\ \A j \in 1..(n - 1) :
                            text[MessageStart(att, j) + Len(part(j))] = ", "

\* C10, reached: the four urls of a list failed, each with another message
\* than the one before.
C10_Witness ==
    /\ trying.call # None
    /\ trying.call[1].status = "thrown"
    /\ Len(trying.attempts) = 4
    /\ \A j \in 1..3 : trying.attempts[j].settled.message
                            # trying.attempts[j + 1].settled.message

\* A request to the estimate endpoint whose gatherNetworkData call returned
\* an aggregate: estimateBlockTime went on to compare the heights.
EstimatedOnAggregate ==
    /\ request.route = Some("estimate")
    /\ request.data # None
    /\ request.data[1].ok

\* The aggregate of the example: every source at block h, measuring avg.
ExampleAggregate(h, avg) ==
    gatherNetworkData(Fulfilled(h, Rat(avg, 1), "url"), Fulfilled(h, Rat(avg, 1), "url"),
                      Fulfilled(h, Rat(avg, 1), "url"))

C12_StatusTellsOutcomesApart ==
    (request.route # None /\ request.data # None) =>
        LET data == request.data[1]
            status == request.response.status
        IN  /\ ~data.ok => status \in 500..599
            /\ (data.ok /\ status # 200) => status = 422

\* A request to the time-to-block endpoint whose gatherNetworkData call
\* returned an aggregate: estimateBlockAtTime went on to compare the times.
TimedOnAggregate ==
    /\ request.route = Some("time-to-block")
    /\ request.data # None
    /\ request.data[1].ok

\* C13: on a successful aggregate estimateBlockAtTime fails exactly when
\* targetDate <= now, and otherwise returns blocksAway = floor((targetDate -
\* now) / avgBlockTimeMs), the whole number n with n * avg <= targetDate - now
\* < (n + 1) * avg, and estimatedBlock = currentBlock + blocksAway >=
\* currentBlock (current 100, avg 2000 ms, now + 25000 ms: 12 and 112).
C13_EstimateBlockAtTime ==
    /\ TimedOnAggregate =>
        LET data == request.data[1]
            timeFromNowMs == Date(request.query.time[1]).time - request.nowMs
            response == request.response
        IN  /\ (timeFromNowMs <= 0) <=>
                    (response.status # 200 /\ response.body.error = TimeInPastMsg)
            /\ timeFromNowMs > 0 =>
                    /\ response.status = 200
                    /\ RatLeq(RatMulInt(data.avgBlockTimeMs, response.body.blocksAway),
                              Rat(timeFromNowMs, 1))
                    /\ RatLess(Rat(timeFromNowMs, 1),
                               RatMulInt(data.avgBlockTimeMs, response.body.blocksAway + 1))
                    /\ response.body.estimatedBlock = data.currentBlock + response.body.blocksAway
                    /\ response.body.estimatedBlock >= data.currentBlock
    /\ LET example == estimateBlockAtTime(ExampleAggregate(100, 2000),
                                          [valid |-> TRUE, time |-> now + 25000], now)
       IN  /\ example.ok
           /\ example.blocksAway = 12
           /\ example.estimatedBlock = 112

\* A block was estimated for a time that is not a whole number of blocks
\* away, the quotient being nearer to the next whole number.
C13_Witness ==
    /\ TimedOnAggregate
    /\ request.response.status = 200
    /\ LET data == request.data[1]
           body == request.response.body
       IN  RatLess(RatMulInt(data.avgBlockTimeMs, 2 * body.blocksAway + 1),
                   Rat(2 * body.timeFromNowMs, 1))

\* C14: when the time-to-block query carries a valid block-time override, the
\* override in milliseconds replaces the aggregated avgBlockTimeMs in the
\* computation of blocksAway and estimatedBlock, and the aggregated
\* currentBlock is still used; without an override the aggregated
\* avgBlockTimeMs is used.
C14_OverrideReplacesAverage ==
    (TimedOnAggregate /\ request.response.status = 200) =>
        LET data == request.data[1]
            customBlockTimeMs == CustomBlockTimeMs(request.query.blockTime)
            avgBlockTimeMs ==
                IF customBlockTimeMs = None THEN data.avgBlockTimeMs ELSE customBlockTimeMs[1]
            body == request.response.body
        IN  /\ RatLeq(RatMulInt(avgBlockTimeMs, body.blocksAway), Rat(body.timeFromNowMs, 1))
            /\ RatLess(Rat(body.timeFromNowMs, 1), RatMulInt(avgBlockTimeMs, body.blocksAway + 1))
            /\ body.estimatedBlock = data.currentBlock + body.blocksAway

\* A step of pass 1's loop: one more entry in results.
Pass1Iterated ==
    /\ cyc.pc = "pass1"
    /\ cyc'.pc = "pass1"
    /\ Len(cyc'.results) = Len(cyc.results) + 1

\* C15: in the due-tier pass, if the delivery of a progress notification or
\* of the terminal notification fails for an item, no Notification of the
\* item's watch is marked sent and the latch is not set, the item is recorded
\* as failed, and the rest of the batch stays to be processed.
C15_DeliveryFailureMarksNothing ==
    [][(Pass1Iterated /\ cyc'.last[1].delivered = Some(FALSE)) =>
            LET k == cyc'.last[1].item
            IN  /\ \A j \in NotifsOf(k[1]) :
                        /\ notifs'[j].sent = notifs[j].sent
                        /\ notifs'[j].sentAt = notifs[j].sentAt
                /\ cyc'.last[1].outcome = "reached" => notifs' = notifs
                /\ watches'[k[1]].reachedNotifiedAt = watches[k[1]].reachedNotifiedAt
                /\ dispatched' = dispatched
                /\ cyc'.results[Len(cyc'.results)] = Result(k, k[2], "failed")
                /\ k \in cyc.pending
                /\ cyc'.pending = cyc.pending \ {k}]_vars

\* The terminal notification of an item was not delivered and the batch
\* holds another item.
C15_Witness ==
    /\ cyc.pc = "pass1"
    /\ cyc.last # None
    /\ cyc.last[1].outcome = "reached"
    /\ cyc.last[1].delivered = Some(FALSE)
    /\ cyc.pending # {}

\* A step of pass 2's loop: one watch less to look at.
Pass2Iterated ==
    /\ cyc.pc = "pass2"
    /\ cyc'.pc = "pass2"
    /\ cyc'.unreached # cyc.unreached

\* C16: in both passes, an item's estimation failure or delivery failure is
\* recorded as that item's failed entry in the result list and leaves the
\* later items to be processed, and an item that was processed with success
\* has its sent entry: each step of a loop that ends in a failure or a
\* success appends exactly the item's entry.
C16_EveryFailureIsRecorded ==
    [][(Pass1Iterated \/ Pass2Iterated) =>
            LET last == cyc'.last[1]
                tier == IF Pass2Iterated THEN "REACHED" ELSE last.item[2]
                failed == last.outcome = "error" \/ last.delivered = Some(FALSE)
                skipped == Pass2Iterated /\ last.outcome = "ahead"
            IN  /\ failed => cyc'.results = Append(cyc.results, Result(last.item, tier, "failed"))
                /\ (~failed /\ ~skipped) =>
                        cyc'.results = Append(cyc.results, Result(last.item, tier, "sent"))
                /\ cyc'.pending = cyc.pending \ {last.item}
                /\ cyc'.unreached = cyc.unreached \ {last.item}]_vars

\* C17: a Notification is immutable once sent: no step changes the
\* scheduledFor, sent or sentAt of a row whose sent flag is true.
C17_SentNotificationIsImmutable ==
    [][\A k \in DOMAIN notifs :
            notifs[k].sent => (k \in DOMAIN notifs' /\ notifs'[k] = notifs[k])]_vars

\* C18: on the still-ahead outcome of the due-tier pass, the watch's
\* currentBlock and estimatedTime are set to the refreshed estimate, and each
\* unsent Notification of the watch whose new time, the refreshed estimate
\* minus the tier's offset, is strictly after now is moved to that time; one
\* whose new time has elapsed keeps its scheduledFor, and the rescheduling
\* marks nothing sent: only the item's own row can become sent in the step.
C18_StillAheadReschedulesFutureTiers ==
    [][(Pass1Iterated /\ cyc'.last[1].outcome = "ahead") =>
            LET item == cyc'.last[1].item
                w == item[1]
                refreshed == cyc'.last[1].estimatedDate[1]
            IN  /\ watches'[w].currentBlock = cyc'.last[1].currentBlock[1]
                /\ watches'[w].estimatedTime = refreshed
                /\ \A j \in NotifsOf(w) :
                        ~notifs[j].sent =>
                            /\ notifs'[j].scheduledFor =
                                    IF refreshed - TIER_OFFSETS[j[2]] > now
                                    THEN refreshed - TIER_OFFSETS[j[2]]
                                    ELSE notifs[j].scheduledFor
                            /\ j # item => ~notifs'[j].sent]_vars

\* A still-ahead item moved one unsent row of its watch to its new time and
\* left another, whose new time had elapsed, where it was.
C18_Witness ==
    /\ cyc.pc = "pass1"
    /\ cyc.last # None
    /\ cyc.last[1].outcome = "ahead"
    /\ LET w == cyc.last[1].item[1]
           refreshed == cyc.last[1].estimatedDate[1]
       IN  \E j, m \in NotifsOf(w) :
                /\ ~notifs[j].sent
                /\ ~notifs[m].sent
                /\ refreshed - TIER_OFFSETS[j[2]] > now
                /\ notifs[j].scheduledFor = refreshed - TIER_OFFSETS[j[2]]
                /\ refreshed - TIER_OFFSETS[m[2]] <= now
                /\ notifs[m].scheduledFor # refreshed - TIER_OFFSETS[m[2]]

\* C19: on the already-reached outcome of the due-tier pass, when the
\* terminal dispatch, if one is attempted, succeeds, every Notification of
\* the watch that was unsent becomes sent, whatever its tier and
\* scheduledFor, and the watch's latch is set; afterwards the watch has no
\* unsent Notification.
C19_ReachedMarksEveryNotification ==
    [][(/\ Pass1Iterated
        /\ cyc'.last[1].outcome = "reached"
        /\ cyc'.last[1].delivered # Some(FALSE)) =>
            LET w == cyc'.last[1].item[1]
            IN  /\ \A j \in NotifsOf(w) :
                        /\ notifs'[j].sent
                        /\ ~notifs[j].sent => notifs'[j].sentAt = Some(now)
                /\ watches'[w].reachedNotifiedAt # None]_vars

\* The terminal notification was delivered and the mass-mark took a row that
\* was not due yet.
C19_Witness ==
    /\ cyc.pc = "pass1"
    /\ cyc.last # None
    /\ cyc.last[1].outcome = "reached"
    /\ cyc.last[1].delivered = Some(TRUE)
    /\ \E j \in NotifsOf(cyc.last[1].item[1]) :
            /\ notifs[j].sent
            /\ notifs[j].scheduledFor > notifs[j].sentAt[1]

\* C20: when the due-tier pass takes the already-reached path for a watch
\* whose persisted latch is already set, the only state change is the
\* mass-mark of the watch's unsent Notifications: no terminal message is
\* dispatched and reachedNotifiedAt keeps its value.
C20_LatchedReachedPathOnlyMassMarks ==
    [][(/\ Pass1Iterated
        /\ cyc'.last[1].outcome = "reached"
        /\ watches[cyc'.last[1].item[1]].reachedNotifiedAt # None) =>
            /\ dispatched' = dispatched
            /\ watches' = watches
            /\ notifs' = MarkAllSent(notifs, cyc'.last[1].item[1], now)]_vars

\* C21: the HTTP cycle trigger is bearer-token gated in every configuration:
\* a processing cycle starts only on a request whose Authorization header is
\* 'Bearer <configured secret>', and any other request gets 401, changes no
\* state and dispatches nothing.
C21_CycleOnlyWithBearerSecret ==
    [][/\ (cyc.pc = "idle" /\ cyc'.pc = "pass1") =>
            /\ processEnv.CRON_SECRET # None
            /\ http'.authorization = Some(Bearer(processEnv.CRON_SECRET[1]))
       /\ (/\ http' # http
           /\ \/ processEnv.CRON_SECRET = None
              \/ http'.authorization # Some(Bearer(processEnv.CRON_SECRET[1]))) =>
            /\ http'.response # None
            /\ http'.response[1].status = 401
            /\ UNCHANGED schedVars]_vars

\* C22: a subscription request creates a BlockWatch only if it is
\* authenticated, has targetBlock and network, and names a webhook or an
\* email address; if one of these is missing, or the estimation fails or
\* reports the target already reached, the request is rejected and neither a
\* BlockWatch nor a Notification row is created.
C22_SubscriptionOnlyWhenComplete ==
    [][LET complete ==
                /\ http'.session # None
                /\ http'.body.targetBlock # None
                /\ http'.body.network # None
                /\ http'.body.slackWebhookUrl # None \/ http'.body.email # None
           estimated == http'.estimation = Some("ahead")
       IN  /\ watches' # watches => (complete /\ estimated)
           /\ (http' # http /\ ~(complete /\ estimated)) =>
                /\ http'.response[1].status \in 400..599
                /\ watches' = watches
                /\ notifs' = notifs]_vars

\* A complete request was rejected because its target was already reached,
\* and the tables are empty.
C22_Witness ==
    /\ http.route = Some("subscribe")
    /\ http.session # None
    /\ http.body.slackWebhookUrl # None
    /\ http.estimation = Some("reached")
    /\ http.response = Some([status |-> 500])
    /\ watches = <<>>
    /\ notifs = <<>>

\* C23: in the subscription path the estimation is bounded by the ten-second
\* timeout: once the timer has expired with the estimation still running,
\* its network calls are cancelled and the request ends with a failure.
C23_TimeoutEndsTheRequest ==
    (/\ http.route = Some("subscribe")
     /\ http.timeout = "expired"
     /\ http.response = None)
        ~> (/\ http.route = Some("subscribe")
            /\ http.response # None
            /\ http.response[1].status = 500)

\* The watches whose cancellation is complete: ids are given out in order and
\* never again.
Cancelled == {w \in 1..(nextId - 1) : w \notin DOMAIN watches}

WatchAnswered == http' # http /\ http'.route = Some("watches/[id]")

\* C24: a watch and its Notifications disappear only by the DELETE of the
\* watch's owner, which removes the watch and all its Notifications; GET or
\* DELETE by another signed-in user is answered 404 and changes neither
\* table; no step of a cycle deletes a row; a cycle's query selects nothing
\* of a cancelled watch and a cycle dispatches only for the watches its
\* query selected, so a cycle that starts after the cancellation dispatches
\* nothing for the watch.
C24_OnlyTheOwnerCancels ==
    [][/\ (DOMAIN watches' # DOMAIN watches \cup DOMAIN watches'
             \/ DOMAIN notifs' # DOMAIN notifs \cup DOMAIN notifs') =>
            /\ WatchAnswered
            /\ http'.method = "DELETE"
            /\ http'.response = Some([status |-> 200])
            /\ http'.id \in DOMAIN watches
            /\ http'.session = Some(watches[http'.id].userId)
            /\ DOMAIN watches' = DOMAIN watches \ {http'.id}
            /\ DOMAIN notifs' = DOMAIN notifs \ NotifsOf(http'.id)
       /\ (WatchAnswered /\ http'.id \in DOMAIN watches) =>
            IF http'.session = Some(watches[http'.id].userId)
            THEN http'.method = "DELETE" =>
                    /\ http'.id \notin DOMAIN watches'
                    /\ \A k \in DOMAIN notifs' : k[1] # http'.id
            ELSE http'.session # None =>
                    /\ http'.response = Some([status |-> 404])
                    /\ watches' = watches
                    /\ notifs' = notifs
       /\ cyc' # cyc =>
            /\ DOMAIN watches' = DOMAIN watches
            /\ DOMAIN notifs' = DOMAIN notifs
            /\ cyc'.bw # cyc.bw => DOMAIN cyc'.bw \cap Cancelled = {}
       /\ \A m \in DOMAIN dispatched :
            dispatched'[m] > dispatched[m] => cyc' # cyc /\ m[1] \in DOMAIN cyc.bw
      ]_vars

\* A watch was cancelled by its owner, and a cycle that selected nothing of
\* it has dispatched a message for another watch.
C24_Witness ==
    /\ Cancelled # {}
    /\ cyc.pc = "pass1"
    /\ cyc.results # <<>>
    /\ DOMAIN cyc.bw \cap Cancelled = {}
    /\ \E m \in DOMAIN dispatched : dispatched[m] > 0 /\ m[1] \in DOMAIN watches

\* C25: in every adapter that is fulfilled, the height lookup and the
\* earlier-block lookup were answered by the same endpoint url, and that url
\* is the origin the adapter reports, whichever endpoints failed.
C25_OneEndpointPerAdapter ==
    \A a \in DOMAIN fetching.adapter :
        LET ad == fetching.adapter[a]
        IN  ad.phase = "fulfilled" =>
                /\ ad.asked.height # None
                /\ ad.asked.earlier = ad.asked.height
                /\ ad.result[1].url = ad.asked.height[1]

\* The three adapters are fulfilled, one of them by an endpoint that is not
\* the first of its list, after the first failed.
C25_Witness ==
    /\ fetching.pc = "settled"
    /\ \A a \in Adapters : fetching.adapter[a].phase = "fulfilled"
    /\ \E a \in Adapters :
        LET ad == fetching.adapter[a]
        IN  /\ ad.call.errors # <<>>
            /\ ad.asked.height # Some(ad.call.urls[1])

\* C26: when cycles keep running, time passes and estimation and delivery
\* succeed from some time on, every Notification that is unsent is eventually
\* marked sent: rescheduling does not postpone it for ever and a batch
\* smaller than the number of due rows does not starve it.
C26_EveryNotificationEventuallySent ==
    \A k \in (1..MaxWatches) \X TierSet :
        (k \in DOMAIN notifs /\ ~notifs[k].sent) ~> (k \in DOMAIN notifs /\ notifs[k].sent)

\* The rows of a watch were sent one at a time by cycles that found the
\* target still ahead, the last of them after the clock of the bounds.
C26_Witness ==
    \E w \in DOMAIN watches :
        /\ Cardinality(NotifsOf(w)) >= 2
        /\ \A k \in NotifsOf(w) : notifs[k].sent
        /\ \E k1, k2 \in NotifsOf(w) : notifs[k1].sentAt # notifs[k2].sentAt
        /\ watches[w].reachedNotifiedAt = None
        /\ height < watches[w].targetBlock

\* The rows pass 1's query matches and the watches pass 2's query matches.
DueRows == {k \in DOMAIN notifs : ~notifs[k].sent /\ notifs[k].scheduledFor <= now}

OpenWatches ==
    {w \in DOMAIN watches :
        /\ watches[w].reachedNotifiedAt = None
        /\ watches[w].slackWebhookUrl # None
        /\ \A k \in NotifsOf(w) : notifs[k].sent}

\* The call that goes from c to cn has run an iteration that sent a message
\* the webhook accepted: the key of the message.
Delivered(c, cn) ==
    IF c.pc = cn.pc /\ cn # c /\ cn.last # None /\ cn.last[1].delivered = Some(TRUE)
    THEN IF cn.last[1].outcome = "reached"
         THEN {<<IF c.pc = "pass2" THEN cn.last[1].item ELSE cn.last[1].item[1], "REACHED">>}
         ELSE {cn.last[1].item}
    ELSE {}

\* C27: no call of processNotifications takes account of another one that is
\* running: the query of each returns every due unsent row and every
\* unlatched watch, also those the other call holds, and an iteration whose
\* message the webhook accepts adds a dispatch whatever was dispatched or
\* marked for the row since the query.
C27_CyclesDoNotExcludeEachOther ==
    [][/\ (cyc2.pc = "idle" /\ cyc2'.pc = "pass1" /\ Cardinality(DueRows) <= Pass1Take) =>
            cyc2'.pending = DueRows
       /\ (cyc.pc = "idle" /\ cyc'.pc = "pass1" /\ Cardinality(DueRows) <= Pass1Take) =>
            cyc'.pending = DueRows
       /\ (cyc2.pc = "pass1" /\ cyc2'.pc = "pass2" /\ Cardinality(OpenWatches) <= Pass2Take) =>
            cyc2'.unreached = OpenWatches
       /\ (cyc.pc = "pass1" /\ cyc'.pc = "pass2" /\ Cardinality(OpenWatches) <= Pass2Take) =>
            cyc'.unreached = OpenWatches
       /\ \A m \in Delivered(cyc, cyc') \cup Delivered(cyc2, cyc2') :
            dispatched'[m] = dispatched[m] + 1
      ]_vars

\* Two overlapping calls selected the same due row and each sent its tier
\* message.
C27_Witness ==
    \E k \in DOMAIN notifs :
        /\ dispatched[k] = 2
        /\ cyc.pc = "pass1" /\ cyc.last # None /\ cyc.last[1].item = k
        /\ cyc2.pc = "pass1" /\ cyc2.last # None /\ cyc2.last[1].item = k

\* C28: in the worker's loop, once SIGINT or SIGTERM is received no new cycle
\* is started, and the process eventually disconnects from the database and
\* stops.
C28_SignalStopsTheWorker ==
    (loop.signal # None) ~> (loop.pc = "stopped" /\ ~loop.connected)

\* C29: in the due-tier pass, when every source fails in the estimation of an
\* item, the item is recorded as failed and nothing is changed: its
\* Notification stays unsent with its scheduledFor, the watch keeps its
\* currentBlock, estimatedTime and latch, nothing is dispatched, and the item
\* leaves the batch, which no step of the pass adds to.
C29_EstimationFailureChangesNothing ==
    [][/\ (Pass1Iterated /\ cyc'.last[1].outcome = "error") =>
            LET k == cyc'.last[1].item
            IN  /\ notifs' = notifs
                /\ watches' = watches
                /\ dispatched' = dispatched
                /\ cyc'.results = Append(cyc.results, Result(k, k[2], "failed"))
                /\ k \in cyc.pending
                /\ cyc'.pending = cyc.pending \ {k}
       /\ (cyc.pc = "pass1" /\ cyc'.pc = "pass1") => cyc'.pending \subseteq cyc.pending
      ]_vars

\* Every source failed in the estimation of a due row, which is still unsent
\* while the pass goes on with another row.
C29_Witness ==
    /\ cyc.pc = "pass1"
    /\ cyc.last # None
    /\ cyc.last[1].outcome = "error"
    /\ ~notifs[cyc.last[1].item].sent
    /\ notifs[cyc.last[1].item].scheduledFor <= now
    /\ cyc.results[Len(cyc.results)].status = "failed"
    /\ cyc.pending # {}

\* C30: the reconciliation pass changes a watch only when the check reports
\* the target reached: for a selected watch whose target is still ahead or
\* whose estimation fails, nothing is dispatched and no watch and no
\* Notification is changed; no step of the pass changes a Notification; and
\* the pass selects only watches with a webhook, no latch and no unsent
\* Notification.
C30_ReconciliationChangesOnlyReached ==
    [][/\ (Pass2Iterated /\ cyc'.last[1].outcome # "reached") =>
            /\ watches' = watches
            /\ notifs' = notifs
            /\ dispatched' = dispatched
       /\ Pass2Iterated =>
            /\ notifs' = notifs
            /\ \A w \in DOMAIN watches : watches'[w] # watches[w] => w = cyc'.last[1].item
       /\ (cyc.pc = "pass1" /\ cyc'.pc = "pass2") =>
            \A w \in cyc'.unreached :
                /\ watches[w].slackWebhookUrl # None
                /\ watches[w].reachedNotifiedAt = None
                /\ \A k \in NotifsOf(w) : notifs[k].sent
      ]_vars

\* The pass looked at a watch whose target is still ahead, with every
\* Notification of it sent.
C30_Witness ==
    /\ cyc.pc = "pass2"
    /\ cyc.last # None
    /\ cyc.last[1].outcome = "ahead"
    /\ NotifsOf(cyc.last[1].item) # {}
    /\ watches[cyc.last[1].item].reachedNotifiedAt = None

\* C31: in the worker's loop, at most one terminal REACHED notification is
\* dispatched for a watch, also when one batch holds several unsent rows of
\* the watch while its target is reached.
C31_WorkerAtMostOneTerminal ==
    \A w \in 1..MaxWatches : dispatched[<<w, "REACHED">>] <= 1

\* What estimateBlockTime returned or threw in the iteration `it`, as far as a
\* loop body reads it.
EstimateOf(it) ==
    IF it.outcome = "ahead"
    THEN [ok |-> TRUE, currentBlock |-> it.currentBlock[1],
          estimatedDate |-> it.estimatedDate[1]]
    ELSE [ok |-> FALSE,
          message |-> IF it.outcome = "reached" THEN AlreadyReachedMsg ELSE AllFailedMsg]

\* C32: the worker's cycle and the route's cycle are the same state machine:
\* from the same tables, with the same estimation and delivery outcomes (a
\* delivery the route does not attempt succeeds), each iteration of the
\* route's due-tier pass leaves the tables and the dispatched messages the
\* worker's iteration leaves, and the route does nothing the worker's cycle
\* does not do.
C32_WorkerCycleEqualsRouteCycle ==
    [][/\ Pass1Iterated =>
            LET it == cyc'.last[1]
                k == it.item
                delivered == IF it.delivered = None THEN TRUE ELSE it.delivered[1]
                worker == WorkerBody(k, cyc.bw[k[1]], EstimateOf(it), delivered)
            IN  /\ notifs' = worker.notifs
                /\ watches' = worker.watches
                /\ dispatched' = worker.dispatched
       /\ Pass2Iterated =>
            /\ watches' = watches
            /\ dispatched' = dispatched
      ]_vars

\* C33: for every watch, no tier progress notification is dispatched once the
\* terminal REACHED notification of the watch has been dispatched, also when
\* the batch was selected before the terminal dispatch and a later estimate
\* of the same cycle reports the target still ahead.
C33_NoProgressAfterTerminal ==
    [][\A k \in DOMAIN dispatched :
            (k[2] # "REACHED" /\ dispatched'[k] > dispatched[k]) =>
                dispatched[<<k[1], "REACHED">>] = 0]_vars

\* C34: under non-overlapping cycles, after every step a watch whose latch is
\* set has no unsent Notification, no Notification goes from sent back to
\* unsent, and no latch that is set is cleared.
C34_LatchAndSentOnlyGoForward ==
    [][/\ \A w \in DOMAIN watches' :
            watches'[w].reachedNotifiedAt # None =>
                \A k \in DOMAIN notifs' : k[1] = w => notifs'[k].sent
       /\ \A k \in DOMAIN notifs :
            notifs[k].sent => (k \in DOMAIN notifs' /\ notifs'[k].sent)
       /\ \A w \in DOMAIN watches :
            watches[w].reachedNotifiedAt # None =>
                (w \in DOMAIN watches' /\ watches'[w].reachedNotifiedAt # None)
      ]_vars

\* A watch with Notifications was latched, and a later cycle is going over a
\* batch.
C34_Witness ==
    \E w \in DOMAIN watches :
        /\ watches[w].reachedNotifiedAt # None
        /\ NotifsOf(w) # {}
        /\ \A k \in NotifsOf(w) : notifs[k].sent
        /\ cyc.pc = "pass2"
        /\ watches[w].reachedNotifiedAt[1] < now

\* The watch w has a webhook and was created with no Notification.
C35_Rowless(w) ==
    /\ w \in DOMAIN watches
    /\ watches[w].slackWebhookUrl # None
    /\ NotifsOf(w) = {}

\* C35: a watch subscribed less than five minutes before its estimated time
\* has no Notification; with a webhook it is taken by the reconciliation
\* pass all the same and, once its target is reached, gets its terminal
\* notification, and only one.
C35_RowlessWatchGetsOneTerminal ==
    /\ \A w \in 1..(ReconTake + 1) :
        (C35_Rowless(w) /\ height >= watches[w].targetBlock)
            ~> (dispatched[<<w, "REACHED">>] = 1)
    /\ [](\A w \in 1..(ReconTake + 1) :
            C35_Rowless(w) => dispatched[<<w, "REACHED">>] <= 1)

\* C36: on the still-ahead path of the due-tier pass a Notification is marked
\* sent only if its progress message was delivered on a channel of the
\* watch, also for a watch with an email address and no webhook.
C36_SentOnlyIfDelivered ==
    [][(Pass1Iterated /\ cyc'.last[1].outcome = "ahead") =>
            LET k == cyc'.last[1].item
            IN  (k \in DOMAIN notifs /\ ~notifs[k].sent /\ notifs'[k].sent)
                    => cyc'.last[1].delivered = Some(TRUE)]_vars

\* C37: whenever a source adapter succeeds, the number of blocks it divided
\* by is at least 1, and its avgBlockTimeMs is a number, whatever latest
\* height the endpoint reported.
C37_SpanAtLeastOne ==
    \A a \in Adapters :
        (fetching.pc # "idle" /\ fetching.adapter[a].phase = "fulfilled") =>
            LET value == fetching.adapter[a].result[1]
            IN  /\ BlocksDiff(a, value.height) >= 1
                /\ ~NotFinite(value.avgBlockTimeMs)

\* The round trip was made on an aggregate with a whole block time and for a
\* whole target block ahead of the chain.
C38_WholeInputs ==
    /\ request.route = Some("round trip")
    /\ request.data.ok
    /\ RatIsWhole(request.data.avgBlockTimeMs)
    /\ RatSign(request.data.avgBlockTimeMs) > 0
    /\ RatIsWhole(request.targetBlock)
    /\ RatLess(Rat(request.data.currentBlock, 1), request.targetBlock)

\* C38: on one aggregate with a whole block time and at one Date.now(), for
\* a whole target block ahead of the chain, estimateBlockAtTime on the date
\* returned by estimateBlockTime gives the target block again, as many blocks
\* away as estimateBlockTime had remaining.
C38_RoundTripGivesTargetBack ==
    C38_WholeInputs =>
        /\ request.there.ok
        /\ request.back # None
        /\ request.back[1].ok
        /\ RatEq(Rat(request.back[1].estimatedBlock, 1), request.targetBlock)
        /\ RatEq(Rat(request.back[1].blocksAway, 1), request.there.blocksRemaining)

C38_Witness ==
    /\ C38_WholeInputs
    /\ request.nowMs > 0
    /\ request.data.currentBlock > 0
    /\ request.back # None
    /\ request.back[1].ok
    /\ request.back[1].blocksAway >= 2
    /\ RatEq(Rat(request.back[1].estimatedBlock, 1), request.targetBlock)

====
